---- MODULE Spec2Model ----
(***************************************************************************)
(* Resource lifetime and command sequencing of the SDL3 GPU wrapper        *)
(* (src/src/sdl3/gpu/mod.rs).                                              *)
(*                                                                         *)
(* The state is what the wrapper's values and the native layer hold:       *)
(*   device[d]    one native device and the Arc<DeviceContainer> over it   *)
(*   resource[r]  one native resource and the Arc<..Container> over it     *)
(*   struct[s]    one binding / region / builder value holding raw         *)
(*                pointers copied out of resource handles                  *)
(*   cmdbuf[c]    one native command buffer and its CommandBuffer value    *)
(*   pass[p]      one RenderPass / CopyPass value                          *)
(*   mapping[m]   one BufferMemMap value over a transfer buffer            *)
(* Every action is one call of the API (or, in SpecConc, one step of a     *)
(* drop that runs concurrently with other drops).  Calls a safe Rust       *)
(* caller cannot write (use of a moved value, drop of a borrowed value)    *)
(* are excluded by the guards; calls it can write are all enabled.         *)
(***************************************************************************)
EXTENDS Integers, FiniteSets, Sequences, TLC

\* ------------------------------------------------------------------ bounds
MaxRes     == 2   \* resources created
MaxHandles == 2   \* handles (clones) of one device or resource alive at once
MaxStructs == 1   \* binding / region / builder values alive at once
MaxCmd     == 1   \* command buffers acquired
MaxPass    == 2   \* pass objects begun
MaxMaps    == 2   \* mappings of transfer buffers held or leaked at once
MaxLen     == 3   \* byte length of a transfer buffer
MaxSize    == 2   \* size_of::<T>() of the element type of a mapping
MaxCalls   == 2   \* with_* calls made on one builder before build

\* one device: handles and resources of different devices share no state
Devs    == {1}
\* the devices where the calls on one are made next to those on another
AllDevs == {1, 2}
Res     == 1..MaxRes
Structs == 1..MaxStructs
Cmds    == 1..MaxCmd
Passes  == 1..MaxPass
Maps    == 1..MaxMaps
Lens    == 0..MaxLen
Sizes   == 0..MaxSize
\* the widths and heights a TextureCreateInfo is given
Dims    == {1, 2}

\* the resource kinds that own a native handle through an Arc<..Container>
Kinds == {"Buffer", "Texture", "Sampler", "Shader", "GraphicsPipeline", "TransferBuffer"}

VARIABLES device, resource, struct, cmdbuf, pass, mapping

vars == <<device, resource, struct, cmdbuf, pass, mapping>>

\* --------------------------------------------------------------- Arc / Weak
\* Dropping one Arc handle: the strong count goes down by one and the inner
\* value is dropped when this was the last strong reference.
ArcDropEveryHandle(strong) == [strong |-> strong - 1, dropInner |-> TRUE]

ArcDrop(strong) == [strong |-> strong - 1, dropInner |-> strong = 1]

\* Weak::upgrade: Some (a new strong reference) iff the strong count is not zero.
WeakUpgradeUnchecked(strong) == TRUE

WeakUpgrade(strong) == strong > 0

\* Arc::downgrade: the strong count of the device after a resource took its
\* back-reference; a Weak adds nothing to it
ArcCloneForBackReference(strong) == strong + 1

ArcDowngrade(strong) == strong

\* ------------------------------------------------------- mappings (borrows)
\* state: "none", "live" (the caller holds the BufferMemMap) or "leaked" (the
\* value was dropped without unmap); buf, dev: the &'a TransferBuffer and
\* &'a Device it holds; size: size_of::<T>(); memNull: `mem` is null;
\* read: mem() or mem_mut() was called, view is what the call did;
\* uploaded: an upload named the transfer buffer while it was mapped
NoView == [panic |-> FALSE, count |-> 0]

NoMap == [state |-> "none", buf |-> 0, dev |-> 0, size |-> 0, memNull |-> FALSE,
          read |-> FALSE, view |-> NoView, uploaded |-> FALSE]

\* a live BufferMemMap<'a, T> borrows a Device handle and a TransferBuffer handle
MapBorrowsDevice(d) == \E m \in Maps : mapping[m].state = "live" /\ mapping[m].dev = d

MapBorrowsBuffer(r) == \E m \in Maps : mapping[m].state = "live" /\ mapping[m].buf = r

\* ------------------------------------------------------------------ device
\* the variants of ShaderFormat (#[repr(u32)]) as u32: the values of the
\* SDL_GPU_SHADERFORMAT_* constants; Invalid is the #[default] variant
Invalid == 0

Private == 1

SpirV == 2

Dxbc == 4

Dxil == 8

Msl == 16

MetalLib == 32

ShaderFormats == {Invalid, Dxbc, Dxil, MetalLib, Msl, Private, SpirV}

\* `(self as u32) | (rhs as u32)` and `(self as u32) & (rhs as u32)`
RECURSIVE BitOr32(_, _)
BitOr32(a, b) ==
    IF a = 0 THEN b
    ELSE IF b = 0 THEN a
    ELSE (IF a % 2 = 1 \/ b % 2 = 1 THEN 1 ELSE 0) + 2 * BitOr32(a \div 2, b \div 2)

RECURSIVE BitAnd32(_, _)
BitAnd32(a, b) ==
    IF a = 0 \/ b = 0 THEN 0
    ELSE (IF a % 2 = 1 /\ b % 2 = 1 THEN 1 ELSE 0) + 2 * BitAnd32(a \div 2, b \div 2)

\* the u32 values over the bits of the declared variants
FormatBits == 0..(2 * MetalLib - 1)

\* `std::mem::transmute(v)` of a u32 to ShaderFormat, read back with `as u32`:
\* v when it is the discriminant of a variant; otherwise the value is not one
\* of the enum and the behaviour is undefined, so any bits may be read back
Transmute(v) == IF v \in ShaderFormats THEN {v} ELSE FormatBits

\* impl BitOr / BitAnd for ShaderFormat (impl_with!(enum_ops ShaderFormat)):
\* the values `lhs | rhs` and `lhs & rhs` can have as u32
BitOr(lhs, rhs) == Transmute(BitOr32(lhs, rhs))

BitAnd(lhs, rhs) == Transmute(BitAnd32(lhs, rhs))

\* flags: the u32 that SDL_CreateGPUDevice was given; claimed: a
\* SDL_ClaimWindowForGPUDevice call on the device returned true
NoDevice == [created |-> FALSE, handles |-> 0, strong |-> 0, destroyCalls |-> 0,
             destroyedBy |-> "none", dropping |-> 0, flags |-> Invalid, claimed |-> FALSE]

\* DeviceContainer::drop: one SDL_DestroyGPUDevice call.
DeviceContainerDropForgets(calls) == calls

DeviceContainerDrop(calls) == calls + 1

\* the state of device d after one of its Device handles is dropped
DropDeviceHandle(dv) ==
    LET a == ArcDrop(dv.strong) IN
    [dv EXCEPT !.handles = dv.handles - 1,
               !.strong = a.strong,
               !.destroyCalls = IF a.dropInner THEN DeviceContainerDrop(dv.destroyCalls)
                                ELSE dv.destroyCalls,
               !.destroyedBy = IF a.dropInner THEN "Device" ELSE dv.destroyedBy]

\* a GraphicsPipelineBuilder borrows the Device handle it was created from
BuilderBorrows(d) ==
    \E s \in Structs : /\ struct[s].type \in {"GraphicsPipelineBuilder", "ShaderBuilder"}
                       /\ struct[s].dev = d

\* a Device handle of d that the caller may move or drop: not the borrowed one
DroppableDeviceHandle(d) ==
    /\ device[d].handles > 0
    /\ (BuilderBorrows(d) \/ MapBorrowsDevice(d)) => device[d].handles > 1

\* what Device::new returns for the pointer SDL_CreateGPUDevice returned:
\* `if raw_device.is_null() { Err(get_error()) } else { Ok(Self { .. }) }`
DeviceNewResultNeverErr(raw_device_null) == "Ok"

DeviceNewResult(raw_device_null) == IF raw_device_null THEN "Err" ELSE "Ok"

\* Device::new(flags, debug_mode) with the native call returning null or a
\* device: Err, or the one handle of a new Arc<DeviceContainer>
DeviceNewWith(d, flags, raw_device_null) ==
    /\ ~device[d].created
    /\ \A e \in AllDevs : e < d => device[e].created
    /\ IF DeviceNewResult(raw_device_null) = "Err"
       THEN UNCHANGED device
       ELSE device' = [device EXCEPT ![d] = [NoDevice EXCEPT !.created = TRUE,
                                                             !.handles = 1,
                                                             !.strong = 1,
                                                             !.flags = flags]]
    /\ UNCHANGED <<resource, struct, cmdbuf, pass, mapping>>

\* Device::new(lhs | rhs, debug_mode) and Device::new(lhs & rhs, debug_mode):
\* `flags as u32` is what the native call is given
DeviceNewOfBitOr(d, lhs, rhs) ==
    \E flags \in BitOr(lhs, rhs), raw_device_null \in BOOLEAN :
        DeviceNewWith(d, flags, raw_device_null)

DeviceNewOfBitAnd(d, lhs, rhs) ==
    \E flags \in BitAnd(lhs, rhs), raw_device_null \in BOOLEAN :
        DeviceNewWith(d, flags, raw_device_null)

\* Device::new: Err when SDL_CreateGPUDevice returns null, else one handle.
DeviceNew(d) == \E raw_device_null \in BOOLEAN : DeviceNewWith(d, Invalid, raw_device_null)

\* Device::clone (derived): one more strong reference, no native call.
DeviceClone(d) ==
    /\ device[d].handles > 0
    /\ device[d].handles < MaxHandles
    /\ device' = [device EXCEPT ![d].handles = @ + 1, ![d].strong = @ + 1]
    /\ UNCHANGED <<resource, struct, cmdbuf, pass, mapping>>

\* drop of a Device handle, the whole of it in one step
DeviceDrop(d) ==
    /\ DroppableDeviceHandle(d)
    /\ device[d].dropping = 0
    /\ device' = [device EXCEPT ![d] = DropDeviceHandle(device[d])]
    /\ UNCHANGED <<resource, struct, cmdbuf, pass, mapping>>

\* Device::with_window: consumes self; Ok(self) when the claim succeeds,
\* otherwise self is dropped on the way out.
WithWindowResultAlwaysErr(p) == "Err"

WithWindowResult(p) == IF p THEN "Ok" ELSE "Err"

\* `self` going out of scope at the end of with_window on the Err path: the
\* drop of one Device handle
DropSelfForgotten(dv) == [dv EXCEPT !.handles = @ - 1]

DropSelf(dv) == DropDeviceHandle(dv)

\* with_window(self, w) with the native claim returning p: on Ok the handle
\* that was moved in is moved out again, on Err it is dropped
WithWindowWith(d, p) ==
    /\ DroppableDeviceHandle(d)
    /\ device[d].dropping = 0
    /\ device' = [device EXCEPT
           ![d] = IF WithWindowResult(p) = "Ok"
                  THEN [device[d] EXCEPT !.claimed = @ \/ p]
                  ELSE DropSelf([device[d] EXCEPT !.claimed = @ \/ p])]
    /\ UNCHANGED <<resource, struct, cmdbuf, pass, mapping>>

WithWindow(d) == \E p \in BOOLEAN : WithWindowWith(d, p)

\* ---------------------------------------------------------------- resources
\* a `*const c_char`: null, or pointing at the bytes of a C string
NullStr == [null |-> TRUE, str |-> <<>>]

PtrTo(bytes) == [null |-> FALSE, str |-> bytes]

\* the fields a handle carries next to its Arc: `len` of a Buffer or
\* TransferBuffer, `width` and `height` of a Texture
NoMeta == [len |-> 0, width |-> 0, height |-> 0]

\* the fields of SDL_GPURasterizerState: the fill mode, and the cull mode for
\* every other field, each of which has one setter of the same form
FillModes == {"Fill", "Line"}

CullModes == {"None", "Front", "Back"}

RasterizerStates == [fill_mode : FillModes, cull_mode : CullModes]

\* RasterizerState::new(), and the rasterizer_state of a Default create info
DefaultRasterizerState == [fill_mode |-> "Fill", cull_mode |-> "None"]

\* rawNull: the native pointer the handle wraps is null; len, width, height:
\* the fields of the handle the factory returned; clone: the fields of the
\* handle the latest clone() returned; rasterizer_state: what the create info
\* of the native create call of a pipeline held; releasedOn: the device the
\* native release call was given
NoResource == [kind |-> "none", dev |-> 0, cmd |-> 0, handles |-> 0, cloned |-> FALSE,
               releaseCalls |-> 0, pc |-> "idle", releasedDead |-> FALSE, rawNull |-> FALSE,
               len |-> 0, width |-> 0, height |-> 0, clone |-> NoMeta,
               rasterizer_state |-> DefaultRasterizerState, releasedOn |-> 0,
               entrypoint |-> NullStr]

\* ..Container::drop of each kind: the number of native release calls it makes,
\* given whether the weak device reference upgraded.
BufferContainerDropAlways(upgraded) == 1

BufferContainerDrop(upgraded) == IF upgraded THEN 1 ELSE 0

TransferBufferContainerDrop(upgraded) == IF upgraded THEN 1 ELSE 0

ShaderContainerDrop(upgraded) == IF upgraded THEN 1 ELSE 0

SamplerContainerDrop(upgraded) == IF upgraded THEN 1 ELSE 0

GraphicsPipelineContainerDrop(upgraded) == IF upgraded THEN 1 ELSE 0

\* TextureContainer::drop: only the UserManaged variant releases
TextureContainerDropAnyVariant(variant, upgraded) == 1

TextureContainerDrop(variant, upgraded) ==
    IF variant = "UserManaged" THEN (IF upgraded THEN 1 ELSE 0) ELSE 0

\* the device of the release call, `device.0` of the upgraded `self.device`:
\* the one whose Arc the factory downgraded
ReleaseDeviceFirstCreated(res) == 1

ReleaseDevice(res) == res.dev

ContainerDrop(kind, upgraded) ==
    CASE kind = "Buffer"           -> BufferContainerDrop(upgraded)
      [] kind = "TransferBuffer"   -> TransferBufferContainerDrop(upgraded)
      [] kind = "Shader"           -> ShaderContainerDrop(upgraded)
      [] kind = "Sampler"          -> SamplerContainerDrop(upgraded)
      [] kind = "GraphicsPipeline" -> GraphicsPipelineContainerDrop(upgraded)
      [] kind = "Texture"          -> TextureContainerDrop("UserManaged", upgraded)
      [] kind = "SwapchainTexture" -> TextureContainerDrop("SdlManaged", upgraded)

\* the handle a successful native create call is wrapped into
NewResource(kind, d, size) ==
    [NoResource EXCEPT !.kind = kind, !.dev = d, !.handles = 1, !.len = size]

\* Texture::new(device, raw, width, height)
TextureNew(d, width, height) ==
    [NewResource("Texture", d, 0) EXCEPT !.width = width, !.height = height]

FreshRes(r) ==
    /\ resource[r].kind = "none"
    /\ \A q \in Res : q < r => resource[q].kind # "none"

\* what a factory returns for the pointer the native create call returned:
\* `if raw.is_null() { Err(get_error()) } else { Ok(..) }`
FactoryResultNeverErr(raw_null) == "Ok"

FactoryResult(raw_null) == IF raw_null THEN "Err" ELSE "Ok"

\* a factory call on a borrowed Device handle of d, with the native create call
\* returning null (raw_null) or a pointer: Err, or a handle wrapping the
\* pointer and holding a weak reference to d
Wrap(r, d, handle, raw_null) ==
    /\ FreshRes(r)
    /\ device[d].handles > 0
    /\ IF FactoryResult(raw_null) = "Err" THEN UNCHANGED <<resource, device>>
       ELSE /\ resource' = [resource EXCEPT ![r] = [handle EXCEPT !.rawNull = raw_null]]
            /\ device' = [device EXCEPT ![d].strong = ArcDowngrade(@)]

CreateWith(r, kind, d, size, raw_null) == Wrap(r, d, NewResource(kind, d, size), raw_null)

Create(r, kind, d) == \E raw_null \in BOOLEAN : CreateWith(r, kind, d, 0, raw_null)

\* with_size(mut self, value): `self.inner.size = value`
WithSizeKeepsFirst(inner_size, value) == IF inner_size = 0 THEN value ELSE inner_size

WithSize(inner_size, value) == value

\* `inner.size` of a builder after the with_size calls of `calls`, made in
\* that order on the Default create info (size 0)
RECURSIVE BuilderSize(_)
BuilderSize(calls) ==
    IF calls = <<>> THEN 0
    ELSE WithSize(BuilderSize(SubSeq(calls, 1, Len(calls) - 1)), calls[Len(calls)])

\* the with_size calls made on one builder: up to MaxCalls of them, each
\* giving no bytes, one byte or the largest length
SizeCalls == UNION {[1..n -> {0, 1, MaxLen}] : n \in 0..MaxCalls}

\* `inner.size` of the builders that build is called on
BuiltSizes == {BuilderSize(calls) : calls \in SizeCalls}

\* BufferBuilder::build: `len: self.inner.size`
BufferBuilderBuild(r, d, size) ==
    /\ \E raw_null \in BOOLEAN : CreateWith(r, "Buffer", d, size, raw_null)
    /\ UNCHANGED <<struct, cmdbuf, pass, mapping>>

\* TransferBufferBuilder::build: `len: self.inner.size`, the size given to
\* with_size or 0
TransferBufferBuilderBuild(r, d, size) ==
    /\ \E raw_null \in BOOLEAN : CreateWith(r, "TransferBuffer", d, size, raw_null)
    /\ UNCHANGED <<struct, cmdbuf, pass, mapping>>

ShaderBuilderBuild(r, d) ==
    /\ Create(r, "Shader", d)
    /\ UNCHANGED <<struct, cmdbuf, pass, mapping>>

CreateSampler(r, d) ==
    /\ Create(r, "Sampler", d)
    /\ UNCHANGED <<struct, cmdbuf, pass, mapping>>

\* Device::create_texture with the native create call returning null or a
\* pointer: the handle takes create_info.inner.width and .height
CreateTextureWith(r, d, width, height, raw_null) ==
    Wrap(r, d, TextureNew(d, width, height), raw_null)

CreateTexture(r, d, width, height) ==
    /\ \E raw_null \in BOOLEAN : CreateTextureWith(r, d, width, height, raw_null)
    /\ UNCHANGED <<struct, cmdbuf, pass, mapping>>

\* the SdlManaged texture variant has no device reference
HasDevice(r) == resource[r].dev # 0

DeviceOf(r) == IF HasDevice(r) THEN device[resource[r].dev] ELSE NoDevice

\* the fields of the handle held of res
MetaOf(res) == [len |-> res.len, width |-> res.width, height |-> res.height]

\* #[derive(Clone)] on a handle: Arc::clone of `inner` (one more strong
\* reference to the same container) and a copy of the other fields
DeriveCloneDefaultFields(res) ==
    [res EXCEPT !.handles = @ + 1, !.cloned = TRUE, !.clone = NoMeta]

DeriveClone(res) ==
    [res EXCEPT !.handles = @ + 1, !.cloned = TRUE, !.clone = MetaOf(res)]

\* clone of a resource handle (derived): one more strong reference
ResourceClone(r) ==
    /\ resource[r].handles > 0
    /\ resource[r].handles < MaxHandles
    /\ resource' = [resource EXCEPT ![r] = DeriveClone(resource[r])]
    /\ UNCHANGED <<device, struct, cmdbuf, pass, mapping>>

\* a shader handle borrowed by a live GraphicsPipelineBuilder cannot be dropped
ShaderBorrowed(r) ==
    \E s \in Structs : /\ struct[s].type = "GraphicsPipelineBuilder"
                       /\ \E f \in DOMAIN struct[s].ptr : struct[s].ptr[f] = r

\* a handle of r that the caller may drop: not one that a builder or a
\* mapping borrows
DroppableHandle(r) ==
    /\ resource[r].handles > 0
    /\ (ShaderBorrowed(r) \/ MapBorrowsBuffer(r)) => resource[r].handles > 1

\* drop of a resource handle, the whole of it in one step: the container is
\* dropped with the last handle, upgrades its weak device reference, makes the
\* release call and lets the temporary strong reference go.
ResourceDrop(r) ==
    /\ DroppableHandle(r)
    /\ resource[r].pc = "idle"
    /\ LET a  == ArcDrop(resource[r].handles)
           up == HasDevice(r) /\ WeakUpgrade(DeviceOf(r).strong)
       IN  resource' = [resource EXCEPT
                 ![r].handles = a.strong,
                 ![r].releaseCalls = IF a.dropInner THEN @ + ContainerDrop(resource[r].kind, up)
                                     ELSE @,
                 ![r].releasedDead = IF a.dropInner /\ ContainerDrop(resource[r].kind, up) > 0
                                     THEN DeviceOf(r).destroyCalls > 0 ELSE @,
                 ![r].releasedOn = IF a.dropInner /\ ContainerDrop(resource[r].kind, up) > 0
                                   THEN ReleaseDevice(resource[r]) ELSE @,
                 ![r].pc = IF a.dropInner THEN "done" ELSE @]
    /\ UNCHANGED <<device, struct, cmdbuf, pass, mapping>>

\* ------------------------------------------- binding / region / builder values
\* the struct types that are given a resource, and the raw-pointer fields each has
StructTypes == {"BufferBinding", "BufferRegion", "TransferBufferLocation",
                "TextureTransferInfo", "TextureRegion", "ColorTargetInfo",
                "DepthStencilTargetInfo", "TextureSamplerBinding"}

Fields == {"buffer", "transfer_buffer", "texture", "sampler",
           "fragment_shader", "vertex_shader"}

FieldsOf(type) ==
    CASE type \in {"BufferBinding", "BufferRegion"}                 -> {"buffer"}
      [] type \in {"TransferBufferLocation", "TextureTransferInfo"} -> {"transfer_buffer"}
      [] type \in {"TextureRegion", "ColorTargetInfo", "DepthStencilTargetInfo"} -> {"texture"}
      [] type = "TextureSamplerBinding"   -> {"texture", "sampler"}
      [] type = "GraphicsPipelineBuilder" -> {"fragment_shader", "vertex_shader"}
      [] OTHER -> {}

\* the handle kinds the with_* setter of field f of a struct type takes:
\* with_texture takes any &Texture, but TextureSamplerBinding::with_texture
\* takes &Texture<'static>, which no swapchain texture is
KindsOfField(type, f) ==
    CASE f = "buffer"          -> {"Buffer"}
      [] f = "transfer_buffer" -> {"TransferBuffer"}
      [] f = "texture"         -> IF type = "TextureSamplerBinding" THEN {"Texture"}
                                  ELSE {"Texture", "SwapchainTexture"}
      [] f = "sampler"         -> {"Sampler"}
      [] f \in {"fragment_shader", "vertex_shader"} -> {"Shader"}

NoPtr == [f \in Fields |-> 0]

\* the with_fill_mode and with_rasterizer_state calls made on a builder: which
\* of the two was called last, and the argument of the last call of each
NoCalls == [last |-> "none", fill |-> "Fill", raster |-> DefaultRasterizerState]

\* rasterizer_state: inner.rasterizer_state of a GraphicsPipelineBuilder
\* entrypoint: the CString a ShaderBuilder owns; inner_entrypoint:
\* inner.entrypoint of its SDL_GPUShaderCreateInfo
NoStruct == [type |-> "none", dev |-> 0, ptr |-> NoPtr,
             rasterizer_state |-> DefaultRasterizerState, calls |-> NoCalls,
             entrypoint |-> <<>>, inner_entrypoint |-> NullStr]

\* the resources whose raw pointer struct s holds
PointsTo(s) == {struct[s].ptr[f] : f \in Fields} \ {0}

\* X::new() / X::default(): all pointers null
StructNew(s, t) ==
    /\ struct[s].type = "none"
    /\ t \in StructTypes
    /\ struct' = [struct EXCEPT ![s] = [NoStruct EXCEPT !.type = t]]
    /\ UNCHANGED <<device, resource, cmdbuf, pass, mapping>>

\* Device::create_graphics_pipeline: a builder borrowing the Device handle
CreateGraphicsPipeline(s, d) ==
    /\ struct[s].type = "none"
    /\ device[d].handles > 0
    /\ struct' = [struct EXCEPT ![s] = [NoStruct EXCEPT !.type = "GraphicsPipelineBuilder",
                                                        !.dev = d]]
    /\ UNCHANGED <<device, resource, cmdbuf, pass, mapping>>

\* with_buffer / with_transfer_buffer / with_texture / with_sampler /
\* with_fragment_shader / with_vertex_shader: field f of s takes handle.raw()
WithHandle(s, f, r) ==
    /\ f \in FieldsOf(struct[s].type)
    /\ resource[r].handles > 0
    /\ resource[r].kind \in KindsOfField(struct[s].type, f)
    /\ struct' = [struct EXCEPT ![s].ptr[f] = r]
    /\ UNCHANGED <<device, resource, cmdbuf, pass, mapping>>

\* GraphicsPipelineBuilder::with_fill_mode:
\* `self.inner.rasterizer_state.fill_mode = SDL_GPUFillMode(value as i32)`
BuilderWithFillMode(rasterizer_state, value) ==
    [rasterizer_state EXCEPT !.fill_mode = value]

\* GraphicsPipelineBuilder::with_rasterizer_state:
\* `self.inner.rasterizer_state = value.inner`
BuilderWithRasterizerStateKeepsFill(rasterizer_state, value) ==
    [value EXCEPT !.fill_mode = rasterizer_state.fill_mode]

BuilderWithRasterizerState(rasterizer_state, value) == value

WithFillMode(s, value) ==
    /\ struct[s].type = "GraphicsPipelineBuilder"
    /\ struct' = [struct EXCEPT
           ![s].rasterizer_state = BuilderWithFillMode(@, value),
           ![s].calls = [@ EXCEPT !.last = "fill", !.fill = value]]
    /\ UNCHANGED <<device, resource, cmdbuf, pass, mapping>>

WithRasterizerState(s, value) ==
    /\ struct[s].type = "GraphicsPipelineBuilder"
    /\ struct' = [struct EXCEPT
           ![s].rasterizer_state = BuilderWithRasterizerState(@, value),
           ![s].calls = [@ EXCEPT !.last = "raster", !.raster = value]]
    /\ UNCHANGED <<device, resource, cmdbuf, pass, mapping>>

\* the struct value goes out of scope
StructDrop(s) ==
    /\ struct[s].type # "none"
    /\ struct' = [struct EXCEPT ![s] = NoStruct]
    /\ UNCHANGED <<device, resource, cmdbuf, pass, mapping>>

\* GraphicsPipelineBuilder::build: consumes the builder; Err when the native
\* create call returns null
GraphicsPipelineBuilderBuild(s, r) ==
    /\ struct[s].type = "GraphicsPipelineBuilder"
    /\ \E raw_null \in BOOLEAN :
         Wrap(r, struct[s].dev,
              [NewResource("GraphicsPipeline", struct[s].dev, 0)
                  EXCEPT !.rasterizer_state = struct[s].rasterizer_state],
              raw_null)
    /\ struct' = [struct EXCEPT ![s] = NoStruct]
    /\ UNCHANGED <<cmdbuf, pass, mapping>>

\* the bytes of "main", and the &str values with_entrypoint is given: "main",
\* "vs" and "v\0s"
MainStr == <<109, 97, 105, 110>>

EntryPoints == {MainStr, <<118, 115>>, <<118, 0, 115>>}

\* CString::new(bytes): Err when a byte is 0, else the bytes
CStringNew(bytes) ==
    IF \E i \in 1..Len(bytes) : bytes[i] = 0 THEN [ok |-> FALSE, str |-> <<>>]
    ELSE [ok |-> TRUE, str |-> bytes]

\* SDL_GPUShaderCreateInfo::default().entrypoint: the zeroed create info
DefaultEntrypoint(entrypoint) == NullStr

\* Device::create_shader: a builder borrowing the Device handle, owning the
\* CString "main", with a default create info
CreateShader(s, d) ==
    /\ struct[s].type = "none"
    /\ device[d].handles > 0
    /\ LET entrypoint == CStringNew(MainStr).str
       IN  struct' = [struct EXCEPT
               ![s] = [NoStruct EXCEPT !.type = "ShaderBuilder",
                                       !.dev = d,
                                       !.entrypoint = entrypoint,
                                       !.inner_entrypoint = DefaultEntrypoint(entrypoint)]]
    /\ UNCHANGED <<device, resource, cmdbuf, pass, mapping>>

\* ShaderBuilder::with_entrypoint: `CString::new(entry_point).unwrap()` is
\* stored and inner.entrypoint is pointed at it; the unwrap panics on a 0
\* byte and the unwinding drops the builder
WithEntrypoint(s, entry_point) ==
    /\ struct[s].type = "ShaderBuilder"
    /\ LET c == CStringNew(entry_point)
       IN  struct' = [struct EXCEPT
               ![s] = IF c.ok THEN [@ EXCEPT !.entrypoint = c.str,
                                             !.inner_entrypoint = PtrTo(c.str)]
                      ELSE NoStruct]
    /\ UNCHANGED <<device, resource, cmdbuf, pass, mapping>>

\* ShaderBuilder::build: consumes the builder and hands &self.inner to the
\* native create call; Err when that returns null
ShaderBuild(s, r) ==
    /\ struct[s].type = "ShaderBuilder"
    /\ \E raw_null \in BOOLEAN :
         Wrap(r, struct[s].dev,
              [NewResource("Shader", struct[s].dev, 0)
                  EXCEPT !.entrypoint = struct[s].inner_entrypoint],
              raw_null)
    /\ struct' = [struct EXCEPT ![s] = NoStruct]
    /\ UNCHANGED <<cmdbuf, pass, mapping>>

\* ---------------------------------------------------------- command buffers
\* submitted / cancelled: the native submit / cancel call has been made;
\* usedAfterSubmit / usedAfterCancel: a native call taking the command buffer
\* was made after that; submitCalls: the native submit calls made on it;
\* cancelCalls: the native cancel calls the latest cancel() made
NoCmd == [acquired |-> FALSE, owned |-> FALSE, dev |-> 0,
          submitted |-> FALSE, submitResult |-> "none", cancelled |-> FALSE,
          usedAfterSubmit |-> FALSE, usedAfterCancel |-> FALSE,
          submitCalls |-> 0, cancelCalls |-> 0]

\* whether the caller still has the CommandBuffer value after the call:
\* submit(self) takes it by value, cancel(&mut self) only borrows it
OwnedAfterSubmitBorrowed(owned) == owned

OwnedAfterSubmit(owned) == FALSE

OwnedAfterCancel(owned) == owned

\* a swapchain Texture<'a> keeps the &'a mut borrow of its command buffer
SwapchainBorrows(c) ==
    \E r \in Res : /\ resource[r].kind = "SwapchainTexture"
                   /\ resource[r].cmd = c
                   /\ resource[r].handles > 0

\* the CommandBuffer value of c can be named in a call
Usable(c) == cmdbuf[c].owned /\ ~SwapchainBorrows(c)

\* bookkeeping of one native call that takes the command buffer of cb
CmdCall(cb) ==
    [cb EXCEPT !.usedAfterSubmit = @ \/ cb.submitted,
               !.usedAfterCancel = @ \/ cb.cancelled]

\* the next command buffer an acquisition returns
FreshCmd(c) ==
    /\ ~cmdbuf[c].acquired
    /\ \A b \in Cmds : b < c => cmdbuf[b].acquired

\* what acquire_command_buffer returns for the pointer the native call returned:
\* `if raw_buffer.is_null() { Err(get_error()) } else { Ok(CommandBuffer { .. }) }`
AcquireResultAlwaysErr(raw_buffer_null) == "Err"

AcquireResult(raw_buffer_null) == IF raw_buffer_null THEN "Err" ELSE "Ok"

\* Device::acquire_command_buffer(&self) with the native call returning null
\* or a command buffer
AcquireCommandBufferWith(c, d, raw_buffer_null) ==
    /\ FreshCmd(c)
    /\ device[d].handles > 0
    /\ IF AcquireResult(raw_buffer_null) = "Err" THEN UNCHANGED cmdbuf
       ELSE cmdbuf' = [cmdbuf EXCEPT ![c] = [NoCmd EXCEPT !.acquired = TRUE,
                                                          !.owned = TRUE,
                                                          !.dev = d]]
    /\ UNCHANGED <<device, resource, struct, pass, mapping>>

\* Device::acquire_command_buffer: Err when the native call returns null
AcquireCommandBuffer(c, d) ==
    \E raw_buffer_null \in BOOLEAN : AcquireCommandBufferWith(c, d, raw_buffer_null)

\* CommandBuffer::push_vertex_uniform_data(&self, ..)
PushVertexUniformData(c) ==
    /\ Usable(c)
    /\ cmdbuf' = [cmdbuf EXCEPT ![c] = CmdCall(cmdbuf[c])]
    /\ UNCHANGED <<device, resource, struct, pass, mapping>>

\* the Texture::new_sdl_managed(swapchain, ..) handle of an acquisition,
\* borrowing command buffer c for 'a
NewSwapchainTexture(c, swapchain_null) ==
    [NoResource EXCEPT !.kind = "SwapchainTexture", !.cmd = c, !.handles = 1,
                       !.rawNull = swapchain_null]

\* the native call returns `success` and leaves a texture pointer or null in
\* `swapchain`; Ok(Texture) iff success, whatever the pointer is
AcquireSwapchain(c, r) ==
    /\ Usable(c)
    /\ FreshRes(r)
    /\ cmdbuf' = [cmdbuf EXCEPT ![c] = CmdCall(cmdbuf[c])]
    /\ \E success \in BOOLEAN, swapchain_null \in BOOLEAN :
         IF success
         THEN resource' = [resource EXCEPT ![r] = NewSwapchainTexture(c, swapchain_null)]
         ELSE UNCHANGED resource
    /\ UNCHANGED <<device, struct, pass, mapping>>

\* CommandBuffer::wait_and_acquire_swapchain_texture(&'a mut self, ..)
WaitAndAcquireSwapchainTexture(c, r) == AcquireSwapchain(c, r)

\* CommandBuffer::acquire_swapchain_texture(&'a mut self, ..)
AcquireSwapchainTexture(c, r) == AcquireSwapchain(c, r)

\* what submit returns for the bool SDL_SubmitGPUCommandBuffer returned:
\* `if .. { Ok(()) } else { Err(get_error()) }`
SubmitResultAlwaysOk(ok) == "Ok"

SubmitResult(ok) == IF ok THEN "Ok" ELSE "Err"

\* CommandBuffer::submit(self) with the native call returning ok: the one
\* native submit call of the body, whatever it returns
SubmitWith(c, ok) ==
    /\ Usable(c)
    /\ cmdbuf' = [cmdbuf EXCEPT
           ![c] = [CmdCall(cmdbuf[c]) EXCEPT !.submitted = TRUE,
                                             !.submitResult = SubmitResult(ok),
                                             !.submitCalls = @ + 1,
                                             !.owned = OwnedAfterSubmit(@)]]
    /\ UNCHANGED <<device, resource, struct, pass, mapping>>

\* CommandBuffer::submit(self): one native submit call, Ok or Err
Submit(c) == \E ok \in BOOLEAN : SubmitWith(c, ok)

\* CommandBuffer::cancel(&mut self): one native cancel call
Cancel(c) ==
    /\ Usable(c)
    /\ cmdbuf' = [cmdbuf EXCEPT
           ![c] = [CmdCall(cmdbuf[c]) EXCEPT !.cancelled = TRUE,
                                             !.cancelCalls = 1,
                                             !.owned = OwnedAfterCancel(@)]]
    /\ UNCHANGED <<device, resource, struct, pass, mapping>>

\* the CommandBuffer value goes out of scope (it has no Drop impl)
CommandBufferDrop(c) ==
    /\ Usable(c)
    /\ cmdbuf' = [cmdbuf EXCEPT ![c].owned = FALSE]
    /\ UNCHANGED <<device, resource, struct, pass, mapping>>

\* ------------------------------------------------------------------- passes
\* A usize of a 64-bit target as four 16-bit limbs, the lowest first, and a
\* u32 as two: 0, 3, u32::MAX, 2^32 and 2^32 + 3
USizes == {<<0, 0, 0, 0>>, <<3, 0, 0, 0>>, <<65535, 65535, 0, 0>>,
           <<0, 0, 1, 0>>, <<3, 0, 1, 0>>}

\* the lengths of the slices given to bind_vertex_buffers and
\* bind_fragment_sampler: 0, 3 and 2^32 + 3 elements
SliceLens == {<<0, 0, 0, 0>>, <<3, 0, 0, 0>>, <<3, 0, 1, 0>>}

\* `value as u32` of a usize: the low 32 bits
AsU32(value) == SubSeq(value, 1, 2)

\* the usize with the same value as a u32
FromU32(value) == value \o <<0, 0>>

\* the last native call of a pass that was given counts: the usize values
\* the wrapper was called with and the u32 values the native call was given
NoCall == [op |-> "none", given |-> <<>>, native |-> <<>>]

CallOf(op, given) ==
    [op |-> op, given |-> given, native |-> [i \in DOMAIN given |-> AsU32(given[i])]]

\* usedLate: a native call taking the pass was made after submit or cancel
\* had been called on its command buffer; usedAfterEnd: a native call taking
\* the pass was made after its end_* call
NoPass == [kind |-> "none", cmd |-> 0, owned |-> FALSE, ended |-> FALSE, usedLate |-> FALSE,
           usedAfterEnd |-> FALSE, call |-> NoCall]

FreshPass(p) ==
    /\ pass[p].kind = "none"
    /\ \A q \in Passes : q < p => pass[q].kind # "none"

\* the command buffer of pass p has had submit or cancel called on it
Terminated(c) == cmdbuf[c].submitted \/ cmdbuf[c].cancelled

\* what begin_* on command buffer c returns for the pointer the native begin
\* call returned: `if p != null_mut() { Ok(..) } else { Err(..) }`, whatever
\* passes were begun on c before
BeginResultOncePerBuffer(p_null, c) ==
    IF p_null \/ (\E q \in Passes : pass[q].cmd = c) THEN "Err" ELSE "Ok"

BeginResult(p_null, c) == IF p_null THEN "Err" ELSE "Ok"

\* the pass value of an Ok return
NewPass(kind, c) == [NoPass EXCEPT !.kind = kind, !.cmd = c, !.owned = TRUE]

\* begin_render_pass / begin_copy_pass(&self, &CommandBuffer, ..) with the
\* native begin call returning null (p_null) or a pass: the native call is
\* made whatever passes are open or were ended before
BeginPassWith(p, c, d, kind, p_null) ==
    /\ FreshPass(p)
    /\ device[d].handles > 0
    /\ Usable(c)
    /\ cmdbuf' = [cmdbuf EXCEPT ![c] = CmdCall(cmdbuf[c])]
    /\ IF BeginResult(p_null, c) = "Err" THEN UNCHANGED pass
       ELSE pass' = [pass EXCEPT ![p] = NewPass(kind, c)]
    /\ UNCHANGED <<device, resource, struct, mapping>>

BeginPass(p, c, d, kind) == \E p_null \in BOOLEAN : BeginPassWith(p, c, d, kind, p_null)

BeginRenderPass(p, c, d) == BeginPass(p, c, d, "RenderPass")

BeginCopyPass(p, c, d) == BeginPass(p, c, d, "CopyPass")

\* bookkeeping of one native call that takes the pass of ps
PassCall(ps) == [ps EXCEPT !.usedLate = @ \/ Terminated(ps.cmd),
                           !.usedAfterEnd = @ \/ ps.ended]

\* whether the caller still has the pass value after end_*(&self, pass): the
\* pass is taken by value
OwnedAfterEndBorrowed(owned) == owned

OwnedAfterEnd(owned) == FALSE

CanCallPass(p, kind) ==
    /\ pass[p].kind = kind
    /\ pass[p].owned

\* end_render_pass / end_copy_pass(&self, pass): takes the pass by value
EndPass(p, d, kind) ==
    /\ CanCallPass(p, kind)
    /\ device[d].handles > 0
    /\ pass' = [pass EXCEPT ![p] = [PassCall(pass[p]) EXCEPT !.owned = OwnedAfterEnd(@),
                                                             !.ended = TRUE]]
    /\ UNCHANGED <<device, resource, struct, cmdbuf, mapping>>

EndRenderPass(p, d) == EndPass(p, d, "RenderPass")

EndCopyPass(p, d) == EndPass(p, d, "CopyPass")

\* a call on &RenderPass / &CopyPass: one native call on the pass
PassOp(p, kind) ==
    /\ CanCallPass(p, kind)
    /\ pass' = [pass EXCEPT ![p] = PassCall(pass[p])]
    /\ UNCHANGED <<device, resource, struct, cmdbuf, mapping>>

BindGraphicsPipeline(p) == PassOp(p, "RenderPass")

BindVertexBuffers(p) == PassOp(p, "RenderPass")

BindIndexBuffer(p) == PassOp(p, "RenderPass")

BindFragmentSampler(p) == PassOp(p, "RenderPass")

DrawIndexedPrimitives(p) == PassOp(p, "RenderPass")

DrawPrimitives(p) == PassOp(p, "RenderPass")

\* draw_primitives(&self, num_vertices, num_instances, first_vertex,
\* first_instance): one native draw call, each usize given `as u32`
DrawPrimitivesOf(p, num_vertices, num_instances, first_vertex, first_instance) ==
    /\ CanCallPass(p, "RenderPass")
    /\ pass' = [pass EXCEPT
           ![p] = [PassCall(pass[p]) EXCEPT
                      !.call = CallOf("draw_primitives",
                                      <<num_vertices, num_instances,
                                        first_vertex, first_instance>>)]]
    /\ UNCHANGED <<device, resource, struct, cmdbuf, mapping>>

\* bind_vertex_buffers / bind_fragment_sampler(&self, first_slot, bindings):
\* one native call, given `bindings.len() as u32`
BindSliceOf(p, op, len) ==
    /\ CanCallPass(p, "RenderPass")
    /\ pass' = [pass EXCEPT ![p] = [PassCall(pass[p]) EXCEPT !.call = CallOf(op, <<len>>)]]
    /\ UNCHANGED <<device, resource, struct, cmdbuf, mapping>>

BindVertexBuffersOf(p, len) == BindSliceOf(p, "bind_vertex_buffers", len)

BindFragmentSamplerOf(p, len) == BindSliceOf(p, "bind_fragment_sampler", len)

\* Device::set_viewport(&self, &RenderPass, ..)
SetViewport(p, d) ==
    /\ device[d].handles > 0
    /\ PassOp(p, "RenderPass")

\* the transfer buffer a TransferBufferLocation / TextureTransferInfo built for
\* the call names: none (0, the Default value) or one the caller has a handle of
TransferArgs == {0} \cup Res

\* upload_to_gpu_buffer / upload_to_gpu_texture(&self, source, destination, cycle)
\* with the source naming tb: one native call on the pass; whether tb is mapped
\* is not looked at
Upload(p, tb) ==
    /\ CanCallPass(p, "CopyPass")
    /\ tb # 0 => resource[tb].kind = "TransferBuffer" /\ resource[tb].handles > 0
    /\ pass' = [pass EXCEPT ![p] = PassCall(pass[p])]
    /\ mapping' = [m \in Maps |->
           IF tb # 0 /\ mapping[m].buf = tb /\ mapping[m].state \in {"live", "leaked"}
           THEN [mapping[m] EXCEPT !.uploaded = TRUE] ELSE mapping[m]]
    /\ UNCHANGED <<device, resource, struct, cmdbuf>>

UploadToGpuBuffer(p, tb) == Upload(p, tb)

UploadToGpuTexture(p, tb) == Upload(p, tb)

\* the pass value goes out of scope without end_* (it has no Drop impl)
PassDrop(p) ==
    /\ pass[p].owned
    /\ pass' = [pass EXCEPT ![p].owned = FALSE]
    /\ UNCHANGED <<device, resource, struct, cmdbuf, mapping>>

\* ----------------------------------------------------------------- mappings
FreshMap(m) ==
    /\ mapping[m].state = "none"
    /\ \A k \in Maps : k < m => mapping[k].state # "none"

\* TransferBuffer::map::<T>(&'a self, &'a Device, cycle) -> BufferMemMap<'a, T>:
\* the pointer the native map call returns is stored as it is, null or not;
\* the borrows are shared, so a mapped buffer can be mapped again
Map(m, r, d, size) ==
    /\ FreshMap(m)
    /\ resource[r].kind = "TransferBuffer"
    /\ resource[r].handles > 0
    /\ device[d].handles > 0
    /\ \E mem_null \in BOOLEAN :
         mapping' = [mapping EXCEPT ![m] = [NoMap EXCEPT !.state = "live", !.buf = r,
                                                        !.dev = d, !.size = size,
                                                        !.memNull = mem_null]]
    /\ UNCHANGED <<device, resource, struct, cmdbuf, pass>>

\* `self.transfer_buffer.len() as usize / std::mem::size_of::<T>()`: the
\* division panics when the divisor is 0
ElementCount(len, size) ==
    IF size = 0 THEN [panic |-> TRUE, count |-> 0]
    ELSE [panic |-> FALSE, count |-> len \div size]

\* BufferMemMap::mem / mem_mut: a slice of ElementCount elements over `mem`;
\* a panic unwinds and drops the mapping, which has no Drop impl
View(m) ==
    /\ mapping[m].state = "live"
    /\ LET v == ElementCount(resource[mapping[m].buf].len, mapping[m].size)
       IN  mapping' = [mapping EXCEPT ![m].read = TRUE,
                                      ![m].view = v,
                                      ![m].state = IF v.panic THEN "leaked" ELSE @]
    /\ UNCHANGED <<device, resource, struct, cmdbuf, pass>>

Mem(m) == View(m)

MemMut(m) == View(m)

\* BufferMemMap::unmap(self): one native unmap call, the mapping is consumed
Unmap(m) ==
    /\ mapping[m].state = "live"
    /\ mapping' = [mapping EXCEPT ![m] = NoMap]
    /\ UNCHANGED <<device, resource, struct, cmdbuf, pass>>

\* the BufferMemMap value goes out of scope (it has no Drop impl): no native
\* call, the transfer buffer stays mapped
MapDrop(m) ==
    /\ mapping[m].state = "live"
    /\ mapping' = [mapping EXCEPT ![m].state = "leaked"]
    /\ UNCHANGED <<device, resource, struct, cmdbuf, pass>>

\* ------------------------------------------------ drops running concurrently
\* The same drops as DeviceDrop and ResourceDrop, one step at a time, for
\* handles that live on different threads.  resource[r].pc is the position of
\* the thread that drops the last handle of r inside ..Container::drop;
\* device[d].dropping counts the threads between the last decrement of the
\* strong count of d and DeviceContainer::drop.

\* Arc<..Container>::drop of one handle of r
ConcResourceDrop(r) ==
    /\ DroppableHandle(r)
    /\ resource[r].pc = "idle"
    /\ LET a == ArcDrop(resource[r].handles)
       IN  resource' = [resource EXCEPT ![r].handles = a.strong,
                                        ![r].pc = IF a.dropInner THEN "upgrade" ELSE @]
    /\ UNCHANGED <<device, struct, cmdbuf, pass, mapping>>

\* ..Container::drop, `self.device.upgrade()`: on Some the thread holds a strong
\* reference to the device, on None the drop is over
StepUpgrade(r) ==
    /\ resource[r].pc = "upgrade"
    /\ LET d  == resource[r].dev
           up == HasDevice(r) /\ WeakUpgrade(device[d].strong)
           n  == ContainerDrop(resource[r].kind, FALSE)
       IN  IF up
           THEN /\ device' = [device EXCEPT ![d].strong = @ + 1]
                /\ resource' = [resource EXCEPT ![r].pc = "release"]
           ELSE /\ UNCHANGED device
                /\ resource' = [resource EXCEPT
                       ![r].pc = "done",
                       ![r].releaseCalls = @ + n,
                       ![r].releasedDead = IF n > 0 THEN DeviceOf(r).destroyCalls > 0 ELSE @,
                       ![r].releasedOn = IF n > 0 THEN ReleaseDevice(resource[r]) ELSE @]
    /\ UNCHANGED <<struct, cmdbuf, pass, mapping>>

\* ..Container::drop, the SDL_Release.. call inside `if let Some(device)`
StepRelease(r) ==
    /\ resource[r].pc = "release"
    /\ LET n == ContainerDrop(resource[r].kind, TRUE)
       IN  resource' = [resource EXCEPT
               ![r].pc = "droptemp",
               ![r].releaseCalls = @ + n,
               ![r].releasedDead = IF n > 0 THEN DeviceOf(r).destroyCalls > 0 ELSE @,
               ![r].releasedOn = IF n > 0 THEN ReleaseDevice(resource[r]) ELSE @]
    /\ UNCHANGED <<device, struct, cmdbuf, pass, mapping>>

\* ..Container::drop, end of the `if let` scope: the upgraded Arc is dropped
StepDropTemp(r) ==
    /\ resource[r].pc = "droptemp"
    /\ LET d == resource[r].dev
           a == ArcDrop(device[d].strong)
       IN  /\ device' = [device EXCEPT ![d].strong = a.strong]
           /\ resource' = [resource EXCEPT ![r].pc = IF a.dropInner THEN "destroy" ELSE "done"]
    /\ UNCHANGED <<struct, cmdbuf, pass, mapping>>

\* DeviceContainer::drop run by the thread that dropped the upgraded Arc
StepDestroyByResource(r) ==
    /\ resource[r].pc = "destroy"
    /\ LET d == resource[r].dev
       IN  device' = [device EXCEPT ![d].destroyCalls = DeviceContainerDrop(@),
                                    ![d].destroyedBy = "Resource"]
    /\ resource' = [resource EXCEPT ![r].pc = "done"]
    /\ UNCHANGED <<struct, cmdbuf, pass, mapping>>

\* Arc<DeviceContainer>::drop of one Device handle of d
ConcDeviceDrop(d) ==
    /\ DroppableDeviceHandle(d)
    /\ LET a == ArcDrop(device[d].strong)
       IN  device' = [device EXCEPT ![d].handles = @ - 1,
                                    ![d].strong = a.strong,
                                    ![d].dropping = IF a.dropInner THEN @ + 1 ELSE @]
    /\ UNCHANGED <<resource, struct, cmdbuf, pass, mapping>>

\* DeviceContainer::drop run by the thread that dropped the last Device handle
StepDestroyByDevice(d) ==
    /\ device[d].dropping > 0
    /\ device' = [device EXCEPT ![d].destroyCalls = DeviceContainerDrop(@),
                                ![d].destroyedBy = "Device",
                                ![d].dropping = @ - 1]
    /\ UNCHANGED <<resource, struct, cmdbuf, pass, mapping>>

\* --------------------------------------------------------------------- init
Init ==
    /\ device = [d \in AllDevs |-> NoDevice]
    /\ resource = [r \in Res |-> NoResource]
    /\ struct = [s \in Structs |-> NoStruct]
    /\ cmdbuf = [c \in Cmds |-> NoCmd]
    /\ pass = [p \in Passes |-> NoPass]
    /\ mapping = [m \in Maps |-> NoMap]

Next ==
    \/ \E d \in Devs : DeviceNew(d)
    \/ \E d \in Devs : DeviceClone(d)
    \/ \E d \in Devs : DeviceDrop(d)
    \/ \E d \in Devs : WithWindow(d)
    \/ \E r \in Res, d \in Devs : BufferBuilderBuild(r, d, 0)
    \/ \E r \in Res, d \in Devs : TransferBufferBuilderBuild(r, d, 0)
    \/ \E r \in Res, d \in Devs : ShaderBuilderBuild(r, d)
    \/ \E r \in Res, d \in Devs : CreateSampler(r, d)
    \/ \E r \in Res, d \in Devs : CreateTexture(r, d, 1, 1)
    \/ \E r \in Res : ResourceClone(r)
    \/ \E r \in Res : ResourceDrop(r)
    \/ \E s \in Structs, d \in Devs : CreateGraphicsPipeline(s, d)
    \/ \E s \in Structs, r \in Res : GraphicsPipelineBuilderBuild(s, r)
    \/ \E s \in Structs : StructDrop(s)

Spec == Init /\ [][Next]_vars

\* the same, with the binding, region and builder values that are given
\* resource handles
NextBind ==
    \/ Next
    \/ \E s \in Structs, t \in StructTypes : StructNew(s, t)
    \/ \E s \in Structs, f \in Fields, r \in Res : WithHandle(s, f, r)

SpecBind == Init /\ [][NextBind]_vars

\* command buffers: the calls that acquire, record into and terminate one;
\* a swapchain texture is held through the one handle the acquisition returned
NextCmd ==
    \/ \E d \in Devs : DeviceNew(d)
    \/ \E d \in Devs : DeviceDrop(d)
    \/ \E c \in Cmds, d \in Devs : AcquireCommandBuffer(c, d)
    \/ \E c \in Cmds : PushVertexUniformData(c)
    \/ \E c \in Cmds, r \in Res : WaitAndAcquireSwapchainTexture(c, r)
    \/ \E c \in Cmds, r \in Res : AcquireSwapchainTexture(c, r)
    \/ \E r \in Res : ResourceDrop(r)
    \/ \E c \in Cmds : Submit(c)
    \/ \E c \in Cmds : Cancel(c)
    \/ \E c \in Cmds : CommandBufferDrop(c)
    \/ \E p \in Passes, c \in Cmds, d \in Devs : BeginRenderPass(p, c, d)
    \/ \E p \in Passes, c \in Cmds, d \in Devs : BeginCopyPass(p, c, d)

SpecCmd == Init /\ [][NextCmd]_vars

\* swapchain textures: acquired from a command buffer, cloned and dropped
NextTex ==
    \/ \E d \in Devs : DeviceNew(d)
    \/ \E d \in Devs : DeviceDrop(d)
    \/ \E c \in Cmds, d \in Devs : AcquireCommandBuffer(c, d)
    \/ \E c \in Cmds, r \in Res : WaitAndAcquireSwapchainTexture(c, r)
    \/ \E c \in Cmds, r \in Res : AcquireSwapchainTexture(c, r)
    \/ \E r \in Res : ResourceClone(r)
    \/ \E r \in Res : ResourceDrop(r)
    \/ \E c \in Cmds : Submit(c)
    \/ \E c \in Cmds : Cancel(c)
    \/ \E c \in Cmds : CommandBufferDrop(c)

SpecTex == Init /\ [][NextTex]_vars

\* the calls on command buffers together with the binding and region values
\* that are given a texture, a swapchain texture among them
NextSwap ==
    \/ NextCmd
    \/ \E r \in Res : ResourceClone(r)
    \/ \E s \in Structs, t \in StructTypes : StructNew(s, t)
    \/ \E s \in Structs, f \in Fields, r \in Res : WithHandle(s, f, r)
    \/ \E s \in Structs : StructDrop(s)

SpecSwap == Init /\ [][NextSwap]_vars

\* the same calls together with what is recorded into, and done with, a pass
NextPass ==
    \/ NextCmd
    \/ \E p \in Passes, d \in Devs : EndRenderPass(p, d)
    \/ \E p \in Passes, d \in Devs : EndCopyPass(p, d)
    \/ \E p \in Passes : BindGraphicsPipeline(p)
    \/ \E p \in Passes : BindVertexBuffers(p)
    \/ \E p \in Passes : BindIndexBuffer(p)
    \/ \E p \in Passes : BindFragmentSampler(p)
    \/ \E p \in Passes : DrawIndexedPrimitives(p)
    \/ \E p \in Passes : DrawPrimitives(p)
    \/ \E p \in Passes, d \in Devs : SetViewport(p, d)
    \/ \E p \in Passes, tb \in TransferArgs : UploadToGpuBuffer(p, tb)
    \/ \E p \in Passes, tb \in TransferArgs : UploadToGpuTexture(p, tb)
    \/ \E p \in Passes : PassDrop(p)

SpecPass == Init /\ [][NextPass]_vars

\* passes alone: begun on a command buffer, recorded into and ended
NextSeq ==
    \/ \E d \in Devs : DeviceNew(d)
    \/ \E d \in Devs : DeviceDrop(d)
    \/ \E c \in Cmds, d \in Devs : AcquireCommandBuffer(c, d)
    \/ \E c \in Cmds : Submit(c)
    \/ \E c \in Cmds : Cancel(c)
    \/ \E p \in Passes, c \in Cmds, d \in Devs : BeginRenderPass(p, c, d)
    \/ \E p \in Passes, c \in Cmds, d \in Devs : BeginCopyPass(p, c, d)
    \/ \E p \in Passes, d \in Devs : EndRenderPass(p, d)
    \/ \E p \in Passes, d \in Devs : EndCopyPass(p, d)
    \/ \E p \in Passes : BindGraphicsPipeline(p)
    \/ \E p \in Passes : BindVertexBuffers(p)
    \/ \E p \in Passes : BindIndexBuffer(p)
    \/ \E p \in Passes : BindFragmentSampler(p)
    \/ \E p \in Passes : DrawIndexedPrimitives(p)
    \/ \E p \in Passes : DrawPrimitives(p)
    \/ \E p \in Passes, d \in Devs : SetViewport(p, d)
    \/ \E p \in Passes, tb \in TransferArgs : UploadToGpuBuffer(p, tb)
    \/ \E p \in Passes, tb \in TransferArgs : UploadToGpuTexture(p, tb)
    \/ \E p \in Passes : PassDrop(p)

SpecSeq == Init /\ [][NextSeq]_vars

\* transfer buffers: built, mapped, viewed and unmapped
NextMap ==
    \/ \E d \in Devs : DeviceNew(d)
    \/ \E d \in Devs : DeviceDrop(d)
    \/ \E r \in Res, d \in Devs, size \in Lens : TransferBufferBuilderBuild(r, d, size)
    \/ \E r \in Res : ResourceClone(r)
    \/ \E r \in Res : ResourceDrop(r)
    \/ \E m \in Maps, r \in Res, d \in Devs, size \in Sizes : Map(m, r, d, size)
    \/ \E m \in Maps : Mem(m)
    \/ \E m \in Maps : MemMut(m)
    \/ \E m \in Maps : Unmap(m)
    \/ \E m \in Maps : MapDrop(m)

SpecMap == Init /\ [][NextMap]_vars

\* transfer buffers mapped, unmapped and named in the uploads of a copy pass
NextUpload ==
    \/ \E d \in Devs : DeviceNew(d)
    \/ \E r \in Res, d \in Devs : TransferBufferBuilderBuild(r, d, 0)
    \/ \E r \in Res : ResourceClone(r)
    \/ \E r \in Res : ResourceDrop(r)
    \/ \E m \in Maps, r \in Res, d \in Devs : Map(m, r, d, 1)
    \/ \E m \in Maps : Unmap(m)
    \/ \E m \in Maps : MapDrop(m)
    \/ \E c \in Cmds, d \in Devs : AcquireCommandBuffer(c, d)
    \/ \E p \in Passes, c \in Cmds, d \in Devs : BeginCopyPass(p, c, d)
    \/ \E p \in Passes, tb \in TransferArgs : UploadToGpuBuffer(p, tb)
    \/ \E p \in Passes, tb \in TransferArgs : UploadToGpuTexture(p, tb)
    \/ \E p \in Passes, d \in Devs : EndCopyPass(p, d)

SpecUpload == Init /\ [][NextUpload]_vars

\* the fields handles carry: buffers built after with_size calls, textures
\* created from a create info, handles cloned and dropped
NextMeta ==
    \/ \E d \in Devs : DeviceNew(d)
    \/ \E d \in Devs : DeviceClone(d)
    \/ \E r \in Res, d \in Devs, size \in BuiltSizes : BufferBuilderBuild(r, d, size)
    \/ \E r \in Res, d \in Devs, size \in BuiltSizes : TransferBufferBuilderBuild(r, d, size)
    \/ \E r \in Res, d \in Devs, width \in Dims, height \in Dims : CreateTexture(r, d, width, height)
    \/ \E r \in Res : ResourceClone(r)
    \/ \E r \in Res : ResourceDrop(r)

SpecMeta == Init /\ [][NextMeta]_vars

\* size_of::<u32>(), the element type the transfer buffer is mapped as
U32Size == 4

\* the number of u32 values written through the mapping
Elements == 64

\* the size given to with_size of both builders: 256 bytes
UploadBytes == Elements * U32Size

\* the objects of one upload: two resources, one mapping, one command buffer
RunRes == {1, 2}

RunMaps == {1}

RunCmds == {1}

\* one upload from start to end: a buffer and a transfer buffer built, the
\* transfer buffer mapped as u32, viewed and unmapped, a copy pass begun on a
\* command buffer, the upload recorded, the pass ended, the buffer submitted
NextRun ==
    \/ \E d \in Devs : DeviceNew(d)
    \/ \E r \in RunRes, d \in Devs, size \in {0, UploadBytes} : BufferBuilderBuild(r, d, size)
    \/ \E r \in RunRes, d \in Devs, size \in {0, UploadBytes} :
          TransferBufferBuilderBuild(r, d, size)
    \/ \E m \in RunMaps, r \in RunRes, d \in Devs : Map(m, r, d, U32Size)
    \/ \E m \in RunMaps : MemMut(m)
    \/ \E m \in RunMaps : Unmap(m)
    \/ \E c \in RunCmds, d \in Devs : AcquireCommandBuffer(c, d)
    \/ \E p \in Passes, c \in RunCmds, d \in Devs : BeginCopyPass(p, c, d)
    \/ \E p \in Passes, tb \in RunRes : UploadToGpuBuffer(p, tb)
    \/ \E p \in Passes, d \in Devs : EndCopyPass(p, d)
    \/ \E c \in RunCmds : Submit(c)

SpecRun == Init /\ [][NextRun]_vars

\* graphics pipelines: a builder created, given a fill mode and rasterizer
\* states in any order, and built or dropped
NextPipe ==
    \/ \E d \in Devs : DeviceNew(d)
    \/ \E s \in Structs, d \in Devs : CreateGraphicsPipeline(s, d)
    \/ \E s \in Structs, value \in FillModes : WithFillMode(s, value)
    \/ \E s \in Structs, value \in RasterizerStates : WithRasterizerState(s, value)
    \/ \E s \in Structs, r \in Res : GraphicsPipelineBuilderBuild(s, r)
    \/ \E s \in Structs : StructDrop(s)

SpecPipe == Init /\ [][NextPipe]_vars

\* Device handles cloned, dropped and moved through with_window, while a
\* pipeline builder borrows one and buffers hold weak references
NextWin ==
    \/ \E d \in Devs : DeviceNew(d)
    \/ \E d \in Devs : DeviceClone(d)
    \/ \E d \in Devs : DeviceDrop(d)
    \/ \E d \in Devs : WithWindow(d)
    \/ \E r \in Res, d \in Devs : BufferBuilderBuild(r, d, 0)
    \/ \E r \in Res, d \in Devs : CreateTexture(r, d, 1, 1)
    \/ \E r \in Res : ResourceClone(r)
    \/ \E r \in Res : ResourceDrop(r)
    \/ \E s \in Structs, d \in Devs : CreateGraphicsPipeline(s, d)
    \/ \E s \in Structs : StructDrop(s)

SpecWin == Init /\ [][NextWin]_vars

\* the same with no Device handle dropped by the caller: handles go only by
\* being moved into a with_window call that fails
NextClaim ==
    \/ \E d \in Devs : DeviceNew(d)
    \/ \E d \in Devs : DeviceClone(d)
    \/ \E d \in Devs : WithWindow(d)
    \/ \E r \in Res, d \in Devs : BufferBuilderBuild(r, d, 0)
    \/ \E r \in Res, d \in Devs : CreateTexture(r, d, 1, 1)
    \/ \E r \in Res : ResourceClone(r)
    \/ \E r \in Res : ResourceDrop(r)
    \/ \E s \in Structs, d \in Devs : CreateGraphicsPipeline(s, d)
    \/ \E s \in Structs : StructDrop(s)

SpecClaim == Init /\ [][NextClaim]_vars

\* devices created from two shader formats combined with | or &
NextFlags ==
    \/ \E d \in Devs, lhs \in ShaderFormats, rhs \in ShaderFormats : DeviceNewOfBitOr(d, lhs, rhs)
    \/ \E d \in Devs, lhs \in ShaderFormats, rhs \in ShaderFormats : DeviceNewOfBitAnd(d, lhs, rhs)
    \/ \E d \in Devs : DeviceClone(d)
    \/ \E d \in Devs : DeviceDrop(d)
    \/ \E d \in Devs : WithWindow(d)

SpecFlags == Init /\ [][NextFlags]_vars

\* two devices, each with resources created from it, cloned and dropped
NextMulti ==
    \/ \E d \in AllDevs : DeviceNew(d)
    \/ \E d \in AllDevs : DeviceDrop(d)
    \/ \E r \in Res, d \in AllDevs : BufferBuilderBuild(r, d, 0)
    \/ \E r \in Res, d \in AllDevs : CreateTexture(r, d, 1, 1)
    \/ \E r \in Res : ResourceClone(r)
    \/ \E r \in Res : ResourceDrop(r)

SpecMulti == Init /\ [][NextMulti]_vars

\* two devices: the calls that take &Device next to a command buffer, a pass
\* or a transfer buffer, which may come from the other device
NextCross ==
    \/ \E d \in AllDevs : DeviceNew(d)
    \/ \E d \in AllDevs : DeviceDrop(d)
    \/ \E c \in Cmds, d \in AllDevs : AcquireCommandBuffer(c, d)
    \/ \E p \in Passes, c \in Cmds, d \in AllDevs : BeginRenderPass(p, c, d)
    \/ \E p \in Passes, c \in Cmds, d \in AllDevs : BeginCopyPass(p, c, d)
    \/ \E p \in Passes, d \in AllDevs : EndRenderPass(p, d)
    \/ \E p \in Passes, d \in AllDevs : EndCopyPass(p, d)
    \/ \E p \in Passes, d \in AllDevs : SetViewport(p, d)
    \/ \E r \in Res, d \in AllDevs : TransferBufferBuilderBuild(r, d, 0)
    \/ \E m \in Maps, r \in Res, d \in AllDevs : Map(m, r, d, 1)
    \/ \E m \in Maps : Unmap(m)

SpecCross == Init /\ [][NextCross]_vars

\* device and resource handles dropped by different threads
NextConc ==
    \/ \E d \in Devs : DeviceNew(d)
    \/ \E d \in Devs : DeviceClone(d)
    \/ \E r \in Res, d \in Devs : BufferBuilderBuild(r, d, 0)
    \/ \E r \in Res, d \in Devs : TransferBufferBuilderBuild(r, d, 0)
    \/ \E r \in Res, d \in Devs : ShaderBuilderBuild(r, d)
    \/ \E r \in Res, d \in Devs : CreateSampler(r, d)
    \/ \E r \in Res, d \in Devs : CreateTexture(r, d, 1, 1)
    \/ \E r \in Res : ResourceClone(r)
    \/ \E r \in Res : ConcResourceDrop(r)
    \/ \E r \in Res : StepUpgrade(r)
    \/ \E r \in Res : StepRelease(r)
    \/ \E r \in Res : StepDropTemp(r)
    \/ \E r \in Res : StepDestroyByResource(r)
    \/ \E d \in Devs : ConcDeviceDrop(d)
    \/ \E d \in Devs : StepDestroyByDevice(d)

SpecConc == Init /\ [][NextConc]_vars

\* shaders: a builder created, given entry points and built or dropped
NextShader ==
    \/ \E d \in Devs : DeviceNew(d)
    \/ \E d \in Devs : DeviceClone(d)
    \/ \E d \in Devs : DeviceDrop(d)
    \/ \E s \in Structs, d \in Devs : CreateShader(s, d)
    \/ \E s \in Structs, entry_point \in EntryPoints : WithEntrypoint(s, entry_point)
    \/ \E s \in Structs, r \in Res : ShaderBuild(s, r)
    \/ \E s \in Structs : StructDrop(s)
    \/ \E r \in Res : ResourceDrop(r)

SpecShader == Init /\ [][NextShader]_vars

\* one render pass: draws and slice bindings recorded with their counts
DrawPasses == {1}

NextDraw ==
    \/ \E d \in Devs : DeviceNew(d)
    \/ \E c \in Cmds, d \in Devs : AcquireCommandBuffer(c, d)
    \/ \E p \in DrawPasses, c \in Cmds, d \in Devs : BeginRenderPass(p, c, d)
    \/ \E p \in DrawPasses, num_vertices \in USizes, num_instances \in USizes,
          first_vertex \in USizes, first_instance \in USizes :
          DrawPrimitivesOf(p, num_vertices, num_instances, first_vertex, first_instance)
    \/ \E p \in DrawPasses, len \in SliceLens : BindVertexBuffersOf(p, len)
    \/ \E p \in DrawPasses, len \in SliceLens : BindFragmentSamplerOf(p, len)
    \/ \E p \in DrawPasses, d \in Devs : EndRenderPass(p, d)
    \/ \E c \in Cmds : Submit(c)

SpecDraw == Init /\ [][NextDraw]_vars

\* the steps a thread takes inside the drop of the last handle of r, after the
\* decrement: a thread that is running a drop goes on to finish it
DropSteps(r) ==
    \/ StepUpgrade(r)
    \/ StepRelease(r)
    \/ StepDropTemp(r)
    \/ StepDestroyByResource(r)

\* handles of a device, of buffers and textures created from it and a pipeline
\* builder borrowing it, dropped by different threads in any order
NextLive ==
    \/ \E d \in Devs : DeviceNew(d)
    \/ \E d \in Devs : DeviceClone(d)
    \/ \E r \in Res, d \in Devs : BufferBuilderBuild(r, d, 0)
    \/ \E r \in Res, d \in Devs : CreateTexture(r, d, 1, 1)
    \/ \E r \in Res : ResourceClone(r)
    \/ \E s \in Structs, d \in Devs : CreateGraphicsPipeline(s, d)
    \/ \E s \in Structs : StructDrop(s)
    \/ \E r \in Res : ConcResourceDrop(r)
    \/ \E r \in Res : DropSteps(r)
    \/ \E d \in Devs : ConcDeviceDrop(d)
    \/ \E d \in Devs : StepDestroyByDevice(d)

\* every drop that has begun runs to its end: threads are scheduled fairly
SpecLive ==
    /\ Init
    /\ [][NextLive]_vars
    /\ \A r \in Res : WF_vars(DropSteps(r))
    /\ \A d \in Devs : WF_vars(StepDestroyByDevice(d))

\* ------------------------------------------------------------------- claims
\* the resources that carry a release obligation and have been created
Owned == {r \in Res : resource[r].kind \in Kinds}

\* C1: while a handle of a resource exists its native release has not been
\* called, and once all handles (the original and its clones) are dropped with
\* the device still alive it has been called exactly once.
C1_ReleasedExactlyOnce ==
    \A r \in Owned :
        /\ resource[r].handles > 0 => resource[r].releaseCalls = 0
        /\ (resource[r].handles = 0 /\ device[resource[r].dev].handles > 0)
              => resource[r].releaseCalls = 1

\* a cloned resource whose handles are all dropped, device still alive
C1_Witness ==
    \E r \in Owned : /\ resource[r].cloned
                     /\ resource[r].handles = 0
                     /\ resource[r].releaseCalls = 1
                     /\ device[resource[r].dev].handles > 0

\* C2: once the device of a resource is destroyed, no step makes a native
\* release call for that resource, whatever handles of it are dropped.
C2_NoReleaseAfterDeviceDrop ==
    [][\A r \in Owned :
          device[resource[r].dev].destroyCalls > 0
             => resource'[r].releaseCalls = resource[r].releaseCalls]_vars

\* all handles of a cloned resource dropped after its device was destroyed
C2_Witness ==
    \E r \in Owned : /\ resource[r].cloned
                     /\ resource[r].pc = "done"
                     /\ resource[r].releaseCalls = 0
                     /\ device[resource[r].dev].destroyCalls = 1

\* C3: SDL_DestroyGPUDevice has not been called while a Device handle exists,
\* and has been called exactly once when the last one is gone.
C3_DestroyedExactlyOnce ==
    \A d \in Devs :
        /\ ~device[d].created => device[d].destroyCalls = 0
        /\ device[d].handles > 0 => device[d].destroyCalls = 0
        /\ (device[d].created /\ device[d].handles = 0) => device[d].destroyCalls = 1

\* a device destroyed after resources were created from it, one still alive
C3_Witness ==
    \E d \in Devs : /\ device[d].destroyCalls = 1
                    /\ \E r \in Owned : resource[r].dev = d /\ resource[r].handles > 0

\* C4: with the drops interleaved step by step, a resource is released at most
\* once and never after SDL_DestroyGPUDevice was called on its device.
C4_ReleaseBeforeDestroy ==
    \A r \in Owned : resource[r].releaseCalls <= 1 /\ ~resource[r].releasedDead

\* the last Device handle was dropped while the resource's drop held its
\* upgraded reference, and the release call has been made
C4_Witness ==
    \E r \in Owned : /\ resource[r].pc = "droptemp"
                     /\ resource[r].releaseCalls = 1
                     /\ device[resource[r].dev].handles = 0

MidDrop(d) == {r \in Owned : resource[r].dev = d
                             /\ resource[r].pc \in {"release", "droptemp", "destroy"}}

C6_NotReleasedWhileReferenced ==
    \A r \in Owned :
        resource[r].releaseCalls > 0
           => /\ resource[r].handles = 0
              /\ \A s \in Structs : r \notin PointsTo(s)

\* C7 as stated: no command buffer has two pass objects at once.
C7_AtMostOneOpenPass ==
    \A c \in Cmds : Cardinality({p \in Passes : pass[p].owned /\ pass[p].cmd = c}) <= 1

\* C8 as stated: no pass object exists on a command buffer that has been
\* submitted or cancelled, and no pass operation was invoked on such a pass.
C8_TerminalOnlyFromRecording ==
    \A p \in Passes :
        pass[p].kind # "none"
           => /\ pass[p].owned => ~Terminated(pass[p].cmd)
              /\ ~pass[p].usedLate

\* C9 as stated: after cancel() no operation is invoked on the command buffer.
C9_NothingAfterCancel ==
    \A c \in Cmds : ~cmdbuf[c].usedAfterCancel

\* C10: after submit(), Ok or Err, the CommandBuffer value is gone and no
\* operation taking it (submit, cancel, push, acquire, begin) was invoked again.
C10_NothingAfterSubmit ==
    \A c \in Cmds :
        cmdbuf[c].submitted => ~cmdbuf[c].owned /\ ~cmdbuf[c].usedAfterSubmit

\* a command buffer whose submit returned Err, after a pass was begun on it
C10_Witness ==
    \E c \in Cmds : /\ cmdbuf[c].submitResult = "Err"
                    /\ \E p \in Passes : pass[p].cmd = c

\* C11: a pass that has been ended is no longer held by the caller, and no
\* bind_*, draw_*, set_viewport, upload_* or second end_* call was made on it
\* after its end_* call.
C11_NothingAfterEnd ==
    \A p \in Passes :
        /\ pass[p].ended => ~pass[p].owned
        /\ ~pass[p].usedAfterEnd

\* a render pass and a copy pass, both ended
C11_Witness ==
    \E p, q \in Passes : /\ pass[p].kind = "RenderPass" /\ pass[p].ended
                         /\ pass[q].kind = "CopyPass" /\ pass[q].ended

\* the other kind of pass
OtherKind(kind) == IF kind = "RenderPass" THEN "CopyPass" ELSE "RenderPass"

\* a pass of the given kind was ended on c and no pass value of c is held
EndedOn(c, kind) ==
    /\ \E q \in Passes : pass[q].cmd = c /\ pass[q].kind = kind /\ pass[q].ended
    /\ \A q \in Passes : pass[q].cmd = c => ~pass[q].owned

\* C12: on a command buffer that is neither submitted nor cancelled, once a
\* pass has been ended, a begin of the other kind whose native call returns a
\* pass can be made and gives the caller a pass value of that kind on that
\* command buffer.
C12_BeginAfterEndAccepted ==
    \A c \in Cmds, d \in Devs, p \in Passes, kind \in {"RenderPass", "CopyPass"} :
        (/\ EndedOn(c, OtherKind(kind))
         /\ ~Terminated(c)
         /\ Usable(c)
         /\ device[d].handles > 0
         /\ FreshPass(p))
           => ENABLED (/\ BeginPassWith(p, c, d, kind, FALSE)
                       /\ pass'[p].owned
                       /\ pass'[p].kind = kind
                       /\ pass'[p].cmd = c)

\* a copy pass held on a live command buffer on which a render pass was ended
C12_Witness ==
    \E c \in Cmds, p, q \in Passes :
        /\ q < p
        /\ pass[q].cmd = c /\ pass[q].kind = "RenderPass" /\ pass[q].ended
        /\ pass[p].cmd = c /\ pass[p].kind = "CopyPass" /\ pass[p].owned
        /\ Usable(c) /\ ~Terminated(c)

\* the swapchain textures that were returned by an acquisition
Swapchain == {r \in Res : resource[r].kind = "SwapchainTexture"}

\* C13 as stated: once the command buffer a swapchain texture came from has
\* been submitted, no handle of the texture exists and no binding or region
\* value holds its pointer.
C13_NotRetainedAfterSubmit ==
    \A r \in Swapchain :
        cmdbuf[resource[r].cmd].submitted
           => /\ resource[r].handles = 0
              /\ \A s \in Structs : r \notin PointsTo(s)

\* C14: no native release call is ever made for a swapchain texture, whatever
\* handles of it were dropped.
C14_SwapchainNeverReleased ==
    \A r \in Swapchain : resource[r].releaseCalls = 0

\* every handle of a cloned swapchain texture dropped, the device destroyed
C14_Witness ==
    \E r \in Swapchain : /\ resource[r].cloned
                         /\ resource[r].pc = "done"
                         /\ \E d \in Devs : device[d].destroyCalls = 1

\* C15 as stated: no acquisition returns Ok with a Texture wrapping a null
\* native handle.
C15_NoNullSwapchainTexture ==
    \A r \in Swapchain : ~resource[r].rawNull

\* the mappings the caller holds
Live == {m \in Maps : mapping[m].state = "live"}

\* C16 as stated: no BufferMemMap with a null memory pointer is returned, and
\* mem() / mem_mut() are not evaluated over a null pointer.
C16_NoNullMapping ==
    \A m \in Maps : mapping[m].state # "none" => ~mapping[m].memNull

\* C17 as stated: no transfer buffer has two live mappings.
C17_AtMostOneMapping ==
    \A r \in Res : Cardinality({m \in Live : mapping[m].buf = r}) <= 1

\* C18 as stated: no upload names a transfer buffer that is mapped, held or
\* not unmapped.
C18_NoUploadWhileMapped ==
    \A m \in Maps : ~mapping[m].uploaded

\* C19 as stated: mem() / mem_mut() expose floor(L / S) elements for S > 0,
\* covering at most L bytes, and the count is defined for every S, 0 included.
C19_ElementCount ==
    \A m \in Maps :
        mapping[m].read =>
            LET L == resource[mapping[m].buf].len
                S == mapping[m].size
                n == mapping[m].view.count
            IN  /\ ~mapping[m].view.panic
                /\ S > 0 => n = L \div S /\ n * S <= L /\ L - n * S = L % S

\* C20: wherever a factory can be called, a native create call that returns
\* a pointer gives one handle wrapping it, with a weak reference to the
\* creating device, and one that returns null leaves no handle behind; no
\* handle wraps null, and a resource is not released while a handle is held.
C20_FactoryResult ==
    /\ \A r \in Owned : /\ ~resource[r].rawNull
                        /\ resource[r].handles > 0 => resource[r].releaseCalls = 0
    /\ \A r \in Res, d \in Devs, kind \in Kinds :
          (FreshRes(r) /\ device[d].handles > 0)
             => /\ ENABLED (/\ CreateWith(r, kind, d, 0, FALSE)
                            /\ resource'[r].kind = kind
                            /\ resource'[r].handles = 1
                            /\ resource'[r].dev = d
                            /\ ~resource'[r].rawNull
                            /\ device'[d].strong = device[d].strong)
                /\ ENABLED (/\ CreateWith(r, kind, d, 0, TRUE)
                            /\ resource' = resource)

\* a pipeline was built from its builder and another factory call can be made
C20_Witness ==
    /\ \E r \in Owned : resource[r].kind = "GraphicsPipeline" /\ resource[r].handles = 1
    /\ \E r \in Res, d \in Devs : FreshRes(r) /\ device[d].handles > 0

\* the size the last with_size call of `calls` gave, 0 when there was none
LastSize(calls) == IF calls = <<>> THEN 0 ELSE calls[Len(calls)]

\* the resources whose handles carry fields
WithMeta == {r \in Res : resource[r].kind \in {"Buffer", "TransferBuffer", "Texture"}}

\* C21: a build whose native call returns a pointer gives a Buffer or
\* TransferBuffer whose len() is the size of the last with_size call (0 with
\* none), create_texture gives a Texture with the width and height of the
\* create info, every clone carries the same values, and no step changes them.
C21_MetadataFixedAtCreation ==
    [][/\ \A r \in Res, d \in Devs :
            (FreshRes(r) /\ device[d].handles > 0)
               => /\ \A calls \in SizeCalls, kind \in {"Buffer", "TransferBuffer"} :
                       ENABLED (/\ CreateWith(r, kind, d, BuilderSize(calls), FALSE)
                                /\ resource'[r].kind = kind
                                /\ resource'[r].len = LastSize(calls))
                  /\ \A width \in Dims, height \in Dims :
                       ENABLED (/\ CreateTextureWith(r, d, width, height, FALSE)
                                /\ resource'[r].kind = "Texture"
                                /\ resource'[r].width = width
                                /\ resource'[r].height = height)
       /\ \A r \in WithMeta :
            /\ MetaOf(resource'[r]) = MetaOf(resource[r])
            /\ resource'[r].cloned => resource'[r].clone = MetaOf(resource[r])]_vars

\* a cloned buffer of the largest size, built after two with_size calls could
\* be made, next to a texture that is higher than wide
C21_Witness ==
    /\ \E r \in WithMeta : /\ resource[r].kind = "Buffer"
                            /\ resource[r].len = MaxLen
                            /\ resource[r].cloned
                            /\ resource[r].clone.len = MaxLen
    /\ \E r \in WithMeta : /\ resource[r].kind = "Texture"
                            /\ resource[r].width = 1
                            /\ resource[r].height = 2

\* the command buffers that are being recorded into
Recording(c) ==
    /\ cmdbuf[c].acquired /\ cmdbuf[c].owned
    /\ ~cmdbuf[c].submitted /\ ~cmdbuf[c].cancelled

\* C22: wherever Device::new can be called, a null return of the native
\* create call gives Err and leaves no handle and no destroy call behind, and
\* a non-null return gives one handle; wherever acquire_command_buffer can be
\* called, a null return gives Err and no command buffer, and a non-null
\* return gives a command buffer that is being recorded into.
C22_ErrExactlyOnNull ==
    /\ \A d \in Devs :
          /\ ~device[d].created => device[d].handles = 0 /\ device[d].destroyCalls = 0
          /\ (~device[d].created /\ \A e \in Devs : e < d => device[e].created)
                => /\ ENABLED (/\ DeviceNewWith(d, Invalid, TRUE)
                               /\ device' = device)
                   /\ ENABLED (/\ DeviceNewWith(d, Invalid, FALSE)
                               /\ device'[d].created
                               /\ device'[d].handles = 1
                               /\ device'[d].destroyCalls = 0)
    /\ \A c \in Cmds, d \in Devs :
          (FreshCmd(c) /\ device[d].handles > 0)
             => /\ ENABLED (/\ AcquireCommandBufferWith(c, d, TRUE)
                            /\ cmdbuf' = cmdbuf)
                /\ ENABLED (/\ AcquireCommandBufferWith(c, d, FALSE)
                            /\ Recording(c)'
                            /\ cmdbuf'[c].dev = d)

\* a command buffer being recorded into, acquired from a created device
C22_Witness ==
    \E c \in Cmds : /\ Recording(c)
                    /\ device[cmdbuf[c].dev].created
                    /\ device[cmdbuf[c].dev].handles = 1
                    /\ device[cmdbuf[c].dev].destroyCalls = 0

\* C23: submit() makes one native submit call and returns Ok when that call
\* returned true and Err when it returned false, with no second call; cancel()
\* makes one native cancel call, returns nothing and leaves no result behind.
C23_OneNativeCallPerInvocation ==
    \A c \in Cmds :
        /\ cmdbuf[c].submitCalls = (IF cmdbuf[c].submitted THEN 1 ELSE 0)
        /\ cmdbuf[c].submitResult = "none" <=> ~cmdbuf[c].submitted
        /\ cmdbuf[c].cancelCalls = (IF cmdbuf[c].cancelled THEN 1 ELSE 0)
        /\ Usable(c)
              => /\ ENABLED (/\ SubmitWith(c, TRUE)
                             /\ cmdbuf'[c].submitResult = "Ok"
                             /\ cmdbuf'[c].submitCalls = cmdbuf[c].submitCalls + 1)
                 /\ ENABLED (/\ SubmitWith(c, FALSE)
                             /\ cmdbuf'[c].submitResult = "Err"
                             /\ cmdbuf'[c].submitCalls = cmdbuf[c].submitCalls + 1)
                 /\ ENABLED (/\ Cancel(c)
                             /\ cmdbuf'[c].cancelled
                             /\ cmdbuf'[c].cancelCalls = 1
                             /\ cmdbuf'[c].submitResult = cmdbuf[c].submitResult
                             /\ cmdbuf'[c].submitCalls = cmdbuf[c].submitCalls)

\* a command buffer that was cancelled and whose submit then returned Err
C23_Witness ==
    \E c \in Cmds : /\ cmdbuf[c].cancelled
                    /\ cmdbuf[c].submitResult = "Err"
                    /\ cmdbuf[c].submitCalls = 1

\* C24: wherever with_window can be called, a claim that succeeds leaves the
\* devices as they were but for the claimed window (the same native device,
\* none created, none destroyed, as many handles as before), and a claim that
\* fails returns no handle: the one that was moved in is gone.
C24_WithWindowKeepsDevice ==
    \A d \in Devs :
        /\ device[d].claimed => device[d].created
        /\ (DroppableDeviceHandle(d) /\ device[d].dropping = 0)
              => /\ ENABLED (/\ WithWindowWith(d, TRUE)
                             /\ device' = [device EXCEPT ![d].claimed = TRUE])
                 /\ ENABLED (/\ WithWindowWith(d, FALSE)
                             /\ device'[d].handles = device[d].handles - 1
                             /\ device'[d].claimed = device[d].claimed)

\* a device that claimed a window, with its handles held and a resource
\* created from it
C24_Witness ==
    \E d \in Devs : /\ device[d].claimed
                    /\ device[d].handles = MaxHandles
                    /\ device[d].destroyCalls = 0
                    /\ \E r \in Owned : resource[r].dev = d /\ resource[r].handles > 0

\* C25: a step that adds a handle to an existing resource or device (a
\* clone) changes the owner count of that one object and nothing else: no
\* release or destroy call is made, no object is created, the pointer stays
\* the same and the new handle carries the len, width and height of the old.
C25_CloneChangesOnlyOwnerCount ==
    [][/\ \A r \in Res :
            (resource[r].handles > 0 /\ resource'[r].handles > resource[r].handles)
               => /\ resource' = [resource EXCEPT ![r].handles = @ + 1,
                                                  ![r].cloned = TRUE,
                                                  ![r].clone = MetaOf(resource[r])]
                  /\ device' = device
       /\ \A d \in Devs :
            (device[d].handles > 0 /\ device'[d].handles > device[d].handles)
               => /\ device' = [device EXCEPT ![d].handles = @ + 1, ![d].strong = @ + 1]
                  /\ resource' = resource]_vars

\* a texture that is higher than wide and a device, each held through two
\* handles, nothing released or destroyed
C25_Witness ==
    \E r \in WithMeta : /\ resource[r].kind = "Texture"
                        /\ resource[r].handles = 2
                        /\ resource[r].clone = [len |-> 0, width |-> 1, height |-> 2]
                        /\ resource[r].releaseCalls = 0
                        /\ device[resource[r].dev].handles = 2
                        /\ device[resource[r].dev].destroyCalls = 0

\* the state after the first k calls of the sequence, every native call
\* having succeeded: 1 the device, 2 the 256-byte buffer, 3 the 256-byte
\* transfer buffer, 4 the mapping as u32, 5 the view of 64 elements written
\* through, 6 the unmap, 7 the command buffer, 8 the copy pass, 9 the upload,
\* 10 the end of the pass, 11 the submit
RunState(k) ==
    /\ device = [d \in AllDevs |->
           IF d = 1 /\ k >= 1
           THEN [NoDevice EXCEPT !.created = TRUE, !.handles = 1, !.strong = 1]
           ELSE NoDevice]
    /\ resource = [r \in Res |->
           IF r = 1 /\ k >= 2 THEN NewResource("Buffer", 1, UploadBytes)
           ELSE IF r = 2 /\ k >= 3 THEN NewResource("TransferBuffer", 1, UploadBytes)
           ELSE NoResource]
    /\ struct = [s \in Structs |-> NoStruct]
    /\ mapping = [m \in Maps |->
           IF m = 1 /\ k \in {4, 5}
           THEN [NoMap EXCEPT !.state = "live", !.buf = 2, !.dev = 1, !.size = U32Size,
                              !.read = (k = 5),
                              !.view = IF k = 5 THEN [panic |-> FALSE, count |-> Elements]
                                       ELSE NoView]
           ELSE NoMap]
    /\ cmdbuf = [c \in Cmds |->
           IF c = 1 /\ k >= 7
           THEN [NoCmd EXCEPT !.acquired = TRUE, !.dev = 1,
                              !.owned = (k < 11),
                              !.submitted = (k >= 11),
                              !.submitCalls = IF k >= 11 THEN 1 ELSE 0,
                              !.submitResult = IF k >= 11 THEN "Ok" ELSE "none"]
           ELSE NoCmd]
    /\ pass = [p \in Passes |->
           IF p = 1 /\ k >= 8
           THEN [NewPass("CopyPass", 1) EXCEPT !.owned = (k < 10), !.ended = (k >= 10)]
           ELSE NoPass]

\* C26: with every native call succeeding, each call of the sequence can be
\* made in the state the calls before it left and returns Ok where it returns
\* a Result: after the submit the command buffer is submitted with Ok, no pass
\* value is held and no mapping is live.
C26_UploadRunAccepted ==
    /\ RunState(0) => ENABLED (/\ DeviceNewWith(1, Invalid, FALSE)
                               /\ RunState(1)')
    /\ RunState(1) => ENABLED (/\ CreateWith(1, "Buffer", 1, BuilderSize(<<UploadBytes>>), FALSE)
                               /\ UNCHANGED <<struct, cmdbuf, pass, mapping>>
                               /\ RunState(2)')
    /\ RunState(2) => ENABLED (/\ CreateWith(2, "TransferBuffer", 1,
                                             BuilderSize(<<UploadBytes>>), FALSE)
                               /\ UNCHANGED <<struct, cmdbuf, pass, mapping>>
                               /\ RunState(3)')
    /\ RunState(3) => ENABLED (Map(1, 2, 1, U32Size) /\ RunState(4)')
    /\ RunState(4) => ENABLED (MemMut(1) /\ RunState(5)')
    /\ RunState(5) => ENABLED (Unmap(1) /\ RunState(6)')
    /\ RunState(6) => ENABLED (AcquireCommandBufferWith(1, 1, FALSE) /\ RunState(7)')
    /\ RunState(7) => ENABLED (BeginPassWith(1, 1, 1, "CopyPass", FALSE) /\ RunState(8)')
    /\ RunState(8) => ENABLED (UploadToGpuBuffer(1, 2) /\ RunState(9)')
    /\ RunState(9) => ENABLED (EndCopyPass(1, 1) /\ RunState(10)')
    /\ RunState(10) => ENABLED (SubmitWith(1, TRUE) /\ RunState(11)')
    /\ RunState(11) => /\ \A p \in Passes : ~pass[p].owned
                       /\ \A m \in Maps : mapping[m].state = "none"
                       /\ \A c \in Cmds : ~cmdbuf[c].usedAfterSubmit

\* the end of the sequence: the command buffer submitted with Ok after the
\* upload from the 256-byte transfer buffer was recorded and the pass ended
C26_Witness == RunState(11)

\* the builders of graphics pipelines
Builders == {s \in Structs : struct[s].type = "GraphicsPipelineBuilder"}

\* the rasterizer state the calls made on a builder ask for: the fill mode of
\* whichever of with_fill_mode and with_rasterizer_state was called last, every
\* other field from the last with_rasterizer_state, the Default with no call
AskedFor(calls) ==
    [calls.raster EXCEPT !.fill_mode = IF calls.last = "fill" THEN calls.fill ELSE @]

\* C28: the create info of a builder holds the fill mode of the last
\* with_fill_mode or with_rasterizer_state call and the other rasterizer fields
\* of the last with_rasterizer_state call; a with_fill_mode call leaves the
\* other fields as they were; build hands that rasterizer state to the native
\* create call.
C28_LastFillModeWins ==
    [][/\ \A s \in Builders :
            /\ struct[s].rasterizer_state = AskedFor(struct[s].calls)
            /\ (struct'[s].type = struct[s].type /\ struct'[s].calls.last = "fill"
                  /\ struct'[s].calls.raster = struct[s].calls.raster)
                  => struct'[s].rasterizer_state.cull_mode
                        = struct[s].rasterizer_state.cull_mode
            /\ \A r \in Res :
                  (struct'[s].type = "none" /\ resource[r].kind = "none"
                      /\ resource'[r].kind = "GraphicsPipeline")
                     => resource'[r].rasterizer_state = AskedFor(struct[s].calls)]_vars

\* a pipeline built with lines and back-face culling, and a builder on which
\* with_rasterizer_state put the fill mode back after with_fill_mode set lines
C28_Witness ==
    /\ \E r \in Res : /\ resource[r].kind = "GraphicsPipeline"
                       /\ resource[r].rasterizer_state
                             = [fill_mode |-> "Line", cull_mode |-> "Back"]
    /\ \E s \in Builders : /\ struct[s].calls.last = "raster"
                            /\ struct[s].calls.fill = "Line"
                            /\ struct[s].rasterizer_state.fill_mode = "Fill"

\* C29 as stated: for any two ShaderFormat variants, the device creation that
\* is given lhs | rhs (lhs & rhs) passes the bitwise OR (AND) of their
\* encodings to the native call, and nothing else, whether or not that value
\* is the encoding of a variant.
C29_FlagsAreBitwiseOr ==
    \A d \in Devs, lhs \in ShaderFormats, rhs \in ShaderFormats :
        /\ ~ ENABLED (/\ DeviceNewOfBitOr(d, lhs, rhs)
                      /\ device'[d].created
                      /\ device'[d].flags # BitOr32(lhs, rhs))
        /\ ~ ENABLED (/\ DeviceNewOfBitAnd(d, lhs, rhs)
                      /\ device'[d].created
                      /\ device'[d].flags # BitAnd32(lhs, rhs))

\* C30: whenever the native release call of a resource has been made, the
\* device it was given is the device the resource was created from, and that
\* device had not been destroyed; a resource that was not released names no
\* device.
C30_ReleasedOnCreatingDevice ==
    \A r \in Owned :
        /\ resource[r].releaseCalls > 0
              => /\ resource[r].releasedOn = resource[r].dev
                 /\ ~resource[r].releasedDead
        /\ resource[r].releaseCalls = 0 => resource[r].releasedOn = 0

\* a resource of the second device released on it after the first device was
\* destroyed, whose own resource was dropped too late to be released
C30_Witness ==
    \E q, r \in Owned : /\ resource[q].dev = 1
                        /\ resource[q].pc = "done"
                        /\ resource[q].releaseCalls = 0
                        /\ device[1].destroyCalls = 1
                        /\ resource[r].dev = 2
                        /\ resource[r].releaseCalls = 1
                        /\ resource[r].releasedOn = 2
                        /\ device[2].handles > 0

\* the device a command buffer was acquired from has been destroyed
DeviceGone(c) == cmdbuf[c].acquired /\ device[cmdbuf[c].dev].destroyCalls > 0

\* C31 as stated: a CommandBuffer or pass value the caller holds implies that
\* its device has not been destroyed, and no native call taking a command
\* buffer or a pass of a destroyed device can be invoked.
C31_NoCallAfterDeviceDestroyed ==
    /\ \A c \in Cmds :
          DeviceGone(c)
             => /\ ~cmdbuf[c].owned
                /\ ~ENABLED (PushVertexUniformData(c) \/ Submit(c) \/ Cancel(c))
                /\ \A r \in Res : ~ENABLED (AcquireSwapchainTexture(c, r)
                                            \/ WaitAndAcquireSwapchainTexture(c, r))
    /\ \A p \in Passes :
          (pass[p].kind # "none" /\ DeviceGone(pass[p].cmd))
             => /\ ~pass[p].owned
                /\ ~ENABLED (BindGraphicsPipeline(p) \/ BindVertexBuffers(p)
                             \/ BindIndexBuffer(p) \/ BindFragmentSampler(p)
                             \/ DrawIndexedPrimitives(p) \/ DrawPrimitives(p))
                /\ \A tb \in TransferArgs : ~ENABLED (UploadToGpuBuffer(p, tb)
                                                      \/ UploadToGpuTexture(p, tb))

\* the device has been created and not destroyed
Alive(d) == device[d].created /\ device[d].destroyCalls = 0

\* C32 as stated: map, unmap, begin_*, end_* and set_viewport are only ever
\* invoked against a device that is still alive: the Device handle of the
\* call and of a held mapping is alive, and no begin_* can be invoked on a
\* command buffer, and no end_* or set_viewport on a pass, whose device has
\* been destroyed.
C32_DeviceCallsOnLiveDevice ==
    /\ \A m \in Maps : mapping[m].state = "live" => Alive(mapping[m].dev)
    /\ \A m \in Maps, r \in Res, d \in AllDevs :
          ENABLED Map(m, r, d, 1) => Alive(d)
    /\ \A c \in Cmds, p \in Passes, d \in AllDevs :
          ENABLED (BeginRenderPass(p, c, d) \/ BeginCopyPass(p, c, d))
             => Alive(d) /\ ~DeviceGone(c)
    /\ \A p \in Passes, d \in AllDevs :
          ENABLED (EndRenderPass(p, d) \/ EndCopyPass(p, d) \/ SetViewport(p, d))
             => Alive(d) /\ ~DeviceGone(pass[p].cmd)

\* the CommandBuffer value of c was returned and the caller no longer has it
OutOfScope(c) == cmdbuf[c].acquired /\ ~cmdbuf[c].owned

\* C33 as stated: a command buffer that has gone out of scope was submitted or
\* cancelled natively, one of the two and once: not neither, not both, and no
\* native call was made on it after its cancel.
C33_ExactlyOneTerminal ==
    \A c \in Cmds :
        OutOfScope(c)
           => /\ cmdbuf[c].submitted \/ cmdbuf[c].cancelled
              /\ ~(cmdbuf[c].submitted /\ cmdbuf[c].cancelled)
              /\ cmdbuf[c].submitCalls <= 1
              /\ ~cmdbuf[c].usedAfterCancel

\* C34 as stated: no mapping whose native map call returned memory is gone
\* from the caller without its native unmap call: a BufferMemMap that went out
\* of scope does not leave its transfer buffer mapped.
C34_EveryMapUnmapped ==
    \A m \in Maps : mapping[m].state = "leaked" => mapping[m].memNull

\* what a failing with_window on device d must leave behind: one handle and
\* one strong reference fewer; one destroy call, made by the drop of that
\* handle, when it was the only one; the device as alive as before otherwise
FailedClaimOutcome(d) ==
    /\ device'[d].handles = device[d].handles - 1
    /\ device'[d].strong = device[d].strong - 1
    /\ IF device[d].strong = 1
       THEN device'[d].destroyCalls = 1 /\ device'[d].destroyedBy = "Device"
       ELSE device'[d].destroyCalls = 0 /\ device'[d].destroyedBy = "none"
    /\ \A e \in AllDevs : e # d => device'[e] = device[e]

\* C35: wherever with_window can be called, a claim that fails drops the
\* handle that was moved in and nothing else: the device is destroyed, once
\* and in that call, when it was the only handle, and stays alive when other
\* handles exist; no device is left without handles and not destroyed, and
\* none is destroyed twice.
C35_FailedClaimDropsHandle ==
    \A d \in Devs :
        /\ device[d].destroyCalls <= 1
        /\ (device[d].created /\ device[d].strong = 0) => device[d].destroyCalls = 1
        /\ device[d].destroyCalls = 1 => device[d].handles = 0
        /\ (DroppableDeviceHandle(d) /\ device[d].dropping = 0)
              => /\ ENABLED (WithWindowWith(d, FALSE) /\ FailedClaimOutcome(d))
                 /\ ~ENABLED (WithWindowWith(d, FALSE) /\ ~FailedClaimOutcome(d))

\* a device whose handles all went into failing with_window calls, after a
\* call on one of them had succeeded: destroyed by the last of the calls,
\* while a resource created from it is still held
C35_Witness ==
    \E d \in Devs : /\ device[d].claimed
                    /\ device[d].handles = 0
                    /\ device[d].destroyedBy = "Device"
                    /\ device[d].destroyCalls = 1
                    /\ \E r \in Owned : resource[r].dev = d /\ resource[r].handles > 0

\* C36: once every Device handle of a device has been dropped, the native
\* device is eventually destroyed, whatever resource handles are still held,
\* whatever order the handles were dropped in and however the drops of
\* different threads interleave.
C36_EventuallyDestroyed ==
    \A d \in Devs :
        (device[d].created /\ device[d].handles = 0) ~> (device[d].destroyCalls = 1)

\* every handle gone and the device destroyed, after one resource was released
\* before the destroy and the drop of the other found the device gone
C36_Witness ==
    \E d \in Devs :
        /\ device[d].destroyCalls = 1
        /\ device[d].handles = 0
        /\ \E q, r \in Owned :
              /\ resource[q].dev = d /\ resource[q].pc = "done" /\ resource[q].releaseCalls = 1
              /\ resource[r].dev = d /\ resource[r].pc = "done" /\ resource[r].releaseCalls = 0

\* the shader builders the caller holds
ShaderBuilders == {s \in Structs : struct[s].type = "ShaderBuilder"}

\* C37 as stated: the entry-point pointer of a shader builder's create info
\* is never null and points at the string the builder stores ("main" until
\* with_entrypoint is called), so every shader was created from a non-null
\* entry point, and one built without with_entrypoint from "main".
C37_EntrypointNeverNull ==
    /\ \A s \in ShaderBuilders :
          /\ ~struct[s].inner_entrypoint.null
          /\ struct[s].inner_entrypoint.str = struct[s].entrypoint
    /\ \A r \in Res : resource[r].kind = "Shader" => ~resource[r].entrypoint.null
    /\ \A s \in Structs, d \in Devs :
          ~ENABLED (/\ CreateShader(s, d)
                    /\ struct'[s].inner_entrypoint # PtrTo(MainStr))

\* C38 as stated: every count a draw_primitives, bind_vertex_buffers or
\* bind_fragment_sampler call was given reaches the native call unchanged: the
\* 32-bit value has the value of the argument.
C38_CountsPassedUnchanged ==
    \A p \in Passes :
        \A i \in DOMAIN pass[p].call.given :
            FromU32(pass[p].call.native[i]) = pass[p].call.given[i]

====
